---- MODULE Spec2Model ----
(***************************************************************************)
(* Model of the search / sort / filter engine of movie-maven:              *)
(* MovieSite (source/classes/movie_site.py), Movie (source/classes/        *)
(* movie.py) and Watchlist (source/classes/watchlist.py), and of the chat  *)
(* layer that calls it (source/main.py, source/classes/user.py).           *)
(*                                                                         *)
(* Strings are sequences of one-character strings.  An Optional value is   *)
(* None (the empty sequence) or <<v>>.  A float that the code computes as  *)
(* a quotient is the exact rational <<numerator, denominator>>.            *)
(***************************************************************************)
EXTENDS Integers, Sequences, FiniteSets, TLC

VARIABLES
  movies,            \* MovieSite.movies
  entries,           \* Watchlist.entries
  sort_title_cache,  \* Watchlist._sort_title_cache
  today,             \* date.today(), as a day number; the model stays within one day
  call,              \* the call in progress at the caller, or the handlers in progress
  bot,               \* the global values of the bot (main.py): g_locked, g_users, g_sites
  users_pkl          \* the file users.pkl that save_user_data writes

vars == <<movies, entries, sort_title_cache, today, call, bot, users_pkl>>

-----------------------------------------------------------------------------
(* Bounds of the model *)

MaxMovies == 2

MaxItems == 2

MaxEntries == 2

MaxLen == 3

-----------------------------------------------------------------------------
(* Python values *)

None == <<>>

Some(v) == <<v>>

IsNone(o) == o = <<>>

Min(a, b) == IF a <= b THEN a ELSE b

Max(a, b) == IF a >= b THEN a ELSE b

\* mutant: the value is returned as it is, None included
replace_none_keeps_none(value, default) == value

\* default if value is None else value: the object returned, <<v>> for the
\* number v (None would be <<>>)
replace_none(value, default) == IF IsNone(value) THEN Some(default) ELSE value

\* the first component of a sort key as the number it is compared as.  None
\* is compared only with None, and is equal to it (see raises_TypeError)
primary(object) == IF IsNone(object) THEN 0 ELSE object[1]

\* sorted(...) on keys whose first components are primaries: -x raises
\* TypeError when x is None, and so does x < y between None and a number
\* (two keys that both start with None are compared on their second
\* components)
raises_TypeError(primaries, reverse) ==
  /\ \E i \in 1..Len(primaries) : IsNone(primaries[i])
  /\ reverse \/ \E i \in 1..Len(primaries) : ~IsNone(primaries[i])

\* str.lower() on the alphabet of the model
LowerChar(c) ==
  IF c = "A" THEN "a" ELSE IF c = "B" THEN "b" ELSE IF c = "C" THEN "c" ELSE c

lower(s) == [i \in 1..Len(s) |-> LowerChar(s[i])]

\* mutant: the last n elements are kept
Take_from_end(a, n) ==
  IF IsNone(n) THEN a ELSE SubSeq(a, Len(a) - Min(n[1], Len(a)) + 1, Len(a))

\* a[:n] for n >= 0, and a[:None]
Take(a, n) == IF IsNone(n) THEN a ELSE SubSeq(a, 1, Min(n[1], Len(a)))

\* a[::-1]
Reversed(a) == [i \in 1..Len(a) |-> a[Len(a) + 1 - i]]

\* mutant: the empty string is found in no string
StrIn_not_empty(sub, s) ==
  /\ sub # <<>>
  /\ \E i \in 0..(Len(s) - Len(sub)) :
        \A k \in 1..Len(sub) : s[i + k] = sub[k]

\* sub in s, for strings: sub occurs in s as a contiguous run
StrIn(sub, s) ==
  \E i \in 0..(Len(s) - Len(sub)) :
     \A k \in 1..Len(sub) : s[i + k] = sub[k]

\* s.split(sep) for a non-empty separator sep
RECURSIVE split(_, _)
split(s, sep) ==
  LET hits == {i \in 1..(Len(s) - Len(sep) + 1) :
                 \A k \in 1..Len(sep) : s[i + k - 1] = sep[k]}
  IN  IF hits = {} THEN <<s>>
      ELSE LET i == CHOOSE h \in hits : \A g \in hits : h <= g
           IN  <<SubSeq(s, 1, i - 1)>> \o split(SubSeq(s, i + Len(sep), Len(s)), sep)

\* lexicographic order of two sequences of integers (Python tuple / bytes order)
LexLess(k1, k2) ==
  \E i \in 1..(Min(Len(k1), Len(k2)) + 1) :
     /\ \A k \in 1..(i - 1) : k1[k] = k2[k]
     /\ \/ i > Len(k1) /\ i <= Len(k2)
        \/ i <= Len(k1) /\ i <= Len(k2) /\ k1[i] < k2[i]

\* the sequence a with every element computed, once
computed(a) == a \o <<>>

\* sorted(items, key=...) where keys[i] is the key of items[i]: a stable sort
\* (the key function is called once for every item)
sorted(items, keys) ==
  LET n == Len(items)
      key == computed(keys)
      rank == computed([i \in 1..n |->
                 Cardinality({j \in 1..n : \/ LexLess(key[j], key[i])
                                           \/ key[j] = key[i] /\ j < i}) + 1])
  IN  [p \in 1..n |-> items[CHOOSE i \in 1..n : rank[i] = p]]

\* sorted(items, key=..., reverse=True): descending, equal keys keep their order
sorted_reverse(items, keys) ==
  LET n == Len(items)
      key == computed(keys)
      rank == computed([i \in 1..n |->
                 Cardinality({j \in 1..n : \/ LexLess(key[i], key[j])
                                           \/ key[j] = key[i] /\ j < i}) + 1])
  IN  [p \in 1..n |-> items[CHOOSE i \in 1..n : rank[i] = p]]

-----------------------------------------------------------------------------
(* Rationals: <<n, d>> with d > 0 *)

RatLess(a, b) == a[1] * b[2] < b[1] * a[2]

RatEq(a, b) == a[1] * b[2] = b[1] * a[2]

RatGeq(a, b) == ~RatLess(a, b)

-----------------------------------------------------------------------------
(* The similarity metrics of movie_site.py *)

\* SequenceMatcher(None, s1, b): the characters of b the matcher sets aside
\* (autojunk): when b has 200 or more characters, those that occur more than
\* len(b) // 100 + 1 times
bpopular(b) ==
  IF Len(b) >= 200
  THEN {c \in {b[j] : j \in 1..Len(b)} :
          Cardinality({j \in 1..Len(b) : b[j] = c}) > Len(b) \div 100 + 1}
  ELSE {}

\* SequenceMatcher(None, s1, s2).find_longest_match(0, len(s1), 0, len(s2)).size:
\* the longest block of equal characters none of which is set aside, the
\* earliest in s1 and then in s2 (the block at 0, 0 of size 0 when there is
\* none), extended to the left and to the right while the characters agree
\* (a longest block cannot be extended when nothing is set aside)
find_longest_match_size(s1, s2) ==
  LET popular == bpopular(s2)
      block(i, j, k) == \A x \in 1..k : s1[i + x] = s2[j + x] /\ s2[j + x] \notin popular
      largest(S) == CHOOSE k \in S : \A g \in S : g <= k
      smallest(S) == CHOOSE k \in S : \A g \in S : k <= g
      extended(besti, bestj, bestsize) ==
        largest({n \in 0..Min(besti, bestj) :
                   \A x \in 1..n : s1[besti + 1 - x] = s2[bestj + 1 - x]})
        + bestsize
        + largest({n \in 0..Min(Len(s1) - besti - bestsize, Len(s2) - bestj - bestsize) :
                     \A x \in 1..n : s1[besti + bestsize + x] = s2[bestj + bestsize + x]})
      from_besti(besti, bestsize) ==
        extended(besti,
                 IF bestsize = 0 THEN 0
                 ELSE smallest({j \in 0..(Len(s2) - bestsize) : block(besti, j, bestsize)}),
                 bestsize)
      from_bestsize(bestsize) ==
        IF popular = {} THEN bestsize
        ELSE from_besti(IF bestsize = 0 THEN 0
                        ELSE smallest({i \in 0..(Len(s1) - bestsize) :
                                         \E j \in 0..(Len(s2) - bestsize) :
                                            block(i, j, bestsize)}),
                        bestsize)
  IN  from_bestsize(largest({k \in 0..Min(Len(s1), Len(s2)) :
                               \E i \in 0..(Len(s1) - k), j \in 0..(Len(s2) - k) :
                                  block(i, j, k)}))

longest_common_substring_percentage(s1, s2) ==
  IF s1 = <<>> \/ s2 = <<>> THEN <<0, 1>>
  ELSE LET size == find_longest_match_size(s1, s2)
       IN  IF size # 0 THEN <<size, Min(Len(s1), Len(s2))>> ELSE <<0, 1>>

\* Levenshtein.distance(s1, s2): the classic insert / delete / substitute
\* distance, computed row by row over the longer string; the row after i
\* characters of it holds the distances of its first i characters to every
\* prefix of the shorter string
RECURSIVE distance_row(_, _, _, _)
distance_row(prev, c, s2, cur) ==
  LET j == Len(cur)
  IN  IF j > Len(s2) THEN cur
      ELSE distance_row(prev, c, s2,
             Append(cur, Min(Min(prev[j + 1] + 1, cur[j] + 1),
                             prev[j] + (IF c = s2[j] THEN 0 ELSE 1))))

\* the row after the characters lo..hi of s1, given the row before them (the
\* row after the first half is computed, the test of its length sees to that,
\* before the second half is entered)
RECURSIVE distance_rows(_, _, _, _, _)
distance_rows(row, s1, s2, lo, hi) ==
  IF lo > hi THEN row
  ELSE IF lo = hi THEN distance_row(row, s1[lo], s2, <<row[1] + 1>>)
  ELSE LET mid == (lo + hi) \div 2
           half == distance_rows(row, s1, s2, lo, mid)
       IN  IF Len(half) = 0 THEN half
           ELSE distance_rows(half, s1, s2, mid + 1, hi)

distance(s1, s2) ==
  LET long == IF Len(s1) >= Len(s2) THEN s1 ELSE s2
      short == IF Len(s1) >= Len(s2) THEN s2 ELSE s1
  IN  distance_rows([j \in 1..(Len(short) + 1) |-> j - 1],
                    long, short, 1, Len(long))[Len(short) + 1]

\* mutant: no early return for an empty string
levenshtein_distance_percentage_unguarded(s1, s2) ==
  LET m == Max(Len(s1), Len(s2))
  IN  <<m - distance(s1, s2), m>>

\* mutant: the distance is divided by the length of the shorter string
levenshtein_distance_percentage_by_min(s1, s2) ==
  IF s1 = <<>> \/ s2 = <<>> THEN <<0, 1>>
  ELSE LET m == Min(Len(s1), Len(s2))
       IN  <<m - distance(s1, s2), m>>

levenshtein_distance_percentage(s1, s2) ==
  IF s1 = <<>> \/ s2 = <<>> THEN <<0, 1>>
  ELSE LET m == Max(Len(s1), Len(s2))
       IN  <<m - distance(s1, s2), m>>

simple_match_percentage(s1, s2) ==
  IF s1 = <<>> \/ s2 = <<>> THEN <<0, 1>>
  ELSE LET s1_split == split(s1, <<" ">>)
           match_count == Cardinality({x \in 1..Len(s1_split) : StrIn(s1_split[x], s2)})
       IN  <<match_count, Len(s1_split)>>

\* match_score = 25 * smp + 5 * ldp + 70 * lcsp
match_score(phrase_lower, title_lower) ==
  LET smp == simple_match_percentage(phrase_lower, title_lower)
      ldp == levenshtein_distance_percentage(phrase_lower, title_lower)
      lcsp == longest_common_substring_percentage(phrase_lower, title_lower)
  IN  <<25 * smp[1] * ldp[2] * lcsp[2] + 5 * ldp[1] * smp[2] * lcsp[2]
          + 70 * lcsp[1] * smp[2] * ldp[2],
        smp[2] * ldp[2] * lcsp[2]>>

\* the match_score the loop of search_movies computes for each record
title_scores(site_movies, phrase_lower) ==
  [i \in 1..Len(site_movies) |-> match_score(phrase_lower, lower(site_movies[i].title))]

\* a / b raises ZeroDivisionError when b is 0: the error, if any, of computing
\* scores (the denominator of a score is the product of the denominators of
\* the three quotients)
scoring_error(scores) ==
  IF \E i \in 1..Len(scores) : scores[i][2] = 0 THEN "ZeroDivisionError" ELSE ""

-----------------------------------------------------------------------------
(* Movie (movie.py) *)

\* The payloads the scraper delivers.  tags is the ', '-joined string built
\* by the scraper; year, length and rating may be absent; title may be empty.
\* The first two are equal by (title, year) and differ in length.
MoviePayloads ==
  { [title |-> <<"a", "b">>, year |-> Some(1999), length |-> Some(90),
     rating |-> Some(8), tags |-> <<"x", ",", " ", "y">>],
    [title |-> <<"a", "b">>, year |-> Some(1999), length |-> Some(100),
     rating |-> None, tags |-> <<"x", "y">>],
    [title |-> <<"A", "b", " ", "c">>, year |-> Some(2003), length |-> Some(90),
     rating |-> Some(8), tags |-> <<"x">>],
    [title |-> <<>>, year |-> None, length |-> None,
     rating |-> Some(5), tags |-> <<>>] }

\* Movie.__init__: a new object (id is the object's identity) with the payload's fields
Movie(id, data) ==
  [id |-> id, title |-> data.title, year |-> data.year, length |-> data.length,
   rating |-> data.rating, tags |-> data.tags]

\* Movie.__eq__
MovieEq(m, other) == m.title = other.title /\ m.year = other.year

\* Movie.__hash__: the hash of (title, year, length), taken to be collision free
MovieHash(m) == <<m.title, m.year, m.length>>

\* m in a_list: list membership compares with ==
MovieInList(m, a_list) == \E i \in 1..Len(a_list) : MovieEq(a_list[i], m)

-----------------------------------------------------------------------------
(* Collation of titles: locale.strxfrm under pl_PL.UTF-8.  The key orders   *)
(* titles by the letters' primary weights first (case ignored) and by case *)
(* second.                                                                 *)

PrimaryWeight(c) ==
  IF c = " " THEN 1
  ELSE IF c \in {"a", "A"} THEN 2
  ELSE IF c \in {"b", "B"} THEN 3
  ELSE IF c \in {"c", "C"} THEN 4
  ELSE 5

CaseWeight(c) == IF c \in {"A", "B", "C"} THEN 2 ELSE 1

strxfrm(title) ==
  [i \in 1..Len(title) |-> PrimaryWeight(title[i])] \o <<0>> \o
  [i \in 1..Len(title) |-> CaseWeight(title[i])]

-----------------------------------------------------------------------------
(* MovieSite (movie_site.py) *)

\* mutant: a new record is compared with the records the catalog held before
\* the call only
add_movies_against_old(site_movies, new_movies, duplicates) ==
  LET kept == SelectSeq(new_movies,
                LAMBDA data : duplicates \/ ~MovieInList(Movie(0, data), site_movies))
  IN  site_movies \o [k \in 1..Len(kept) |-> Movie(Len(site_movies) + k, kept[k])]

\* MovieSite.add_movies
RECURSIVE add_movies(_, _, _)
add_movies(site_movies, new_movies, duplicates) ==
  IF new_movies = <<>> THEN site_movies
  ELSE LET new_movie == Movie(Len(site_movies) + 1, Head(new_movies))
       IN  IF duplicates \/ ~MovieInList(new_movie, site_movies)
           THEN add_movies(Append(site_movies, new_movie), Tail(new_movies), duplicates)
           ELSE add_movies(site_movies, Tail(new_movies), duplicates)

get_movies_sorted_by_title(site_movies, max_items, reverse) ==
  LET keys == [i \in 1..Len(site_movies) |-> strxfrm(site_movies[i].title)]
      sorted_movies == IF reverse THEN sorted_reverse(site_movies, keys)
                       ELSE sorted(site_movies, keys)
  IN  Take(sorted_movies, max_items)

\* mutant: the rating is not negated when reverse is set
get_movies_sorted_by_rating_not_negated(site_movies, max_items, reverse) ==
  LET keys == [i \in 1..Len(site_movies) |->
                 <<primary(replace_none(site_movies[i].rating, 0))>> \o strxfrm(site_movies[i].title)]
      sorted_movies == sorted(site_movies, keys)
  IN  Take(sorted_movies, max_items)

get_movies_sorted_by_rating(site_movies, max_items, reverse) ==
  LET keys == [i \in 1..Len(site_movies) |->
                 IF ~reverse
                 THEN <<primary(replace_none(site_movies[i].rating, 0))>> \o strxfrm(site_movies[i].title)
                 ELSE <<-primary(replace_none(site_movies[i].rating, 0))>> \o strxfrm(site_movies[i].title)]
      sorted_movies == sorted(site_movies, keys)
  IN  Take(sorted_movies, max_items)

get_movies_sorted_by_year(site_movies, max_items, reverse) ==
  LET keys == [i \in 1..Len(site_movies) |->
                 IF ~reverse
                 THEN <<primary(replace_none(site_movies[i].year, 1900))>> \o strxfrm(site_movies[i].title)
                 ELSE <<-primary(replace_none(site_movies[i].year, 1900))>> \o strxfrm(site_movies[i].title)]
      sorted_movies == sorted(site_movies, keys)
  IN  Take(sorted_movies, max_items)

get_movies_sorted_by_date_added(site_movies, max_items, reverse) ==
  LET sorted_movies == IF reverse THEN Reversed(site_movies) ELSE site_movies
  IN  Take(sorted_movies, max_items)

\* the error, if any, that the sorted(...) call of get_movies_sorted_by_<sort_key>
\* raises on site_movies
sort_error(site_movies, sort_key, reverse) ==
  LET primaries ==
        IF sort_key = "rating"
        THEN [i \in 1..Len(site_movies) |-> replace_none(site_movies[i].rating, 0)]
        ELSE IF sort_key = "year"
        THEN [i \in 1..Len(site_movies) |-> replace_none(site_movies[i].year, 1900)]
        ELSE <<>>
  IN  IF raises_TypeError(primaries, reverse) THEN "TypeError" ELSE ""

\* site.get_movies_sorted_by_<sort_key>(max_items, reverse) as its caller sees
\* it: the error raised, or the list returned
get_movies_sorted_by(site_movies, sort_key, max_items, reverse) ==
  IF sort_error(site_movies, sort_key, reverse) # ""
  THEN [raised |-> sort_error(site_movies, sort_key, reverse), value |-> <<>>]
  ELSE [raised |-> "",
        value |-> IF sort_key = "title"
                  THEN get_movies_sorted_by_title(site_movies, max_items, reverse)
                  ELSE IF sort_key = "rating"
                  THEN get_movies_sorted_by_rating(site_movies, max_items, reverse)
                  ELSE IF sort_key = "year"
                  THEN get_movies_sorted_by_year(site_movies, max_items, reverse)
                  ELSE get_movies_sorted_by_date_added(site_movies, max_items, reverse)]

\* all(tag in movie.tags for tag in selected_tags): movie.tags is a string, so
\* each test is a substring test
filter_movies_by_tags(some_movies, selected_tags) ==
  SelectSeq(some_movies,
            LAMBDA movie : \A t \in 1..Len(selected_tags) : StrIn(selected_tags[t], movie.tags))

\* mutant: only the first record of a selected year is kept
filter_movies_by_years_first(some_movies, selected_years) ==
  LET kept == SelectSeq(some_movies,
                        LAMBDA movie : \E y \in 1..Len(selected_years) :
                                          movie.year = Some(selected_years[y]))
  IN  SubSeq(kept, 1, Min(1, Len(kept)))

\* mutant: a record with no year passes the year filter
filter_movies_by_years_or_none(some_movies, selected_years) ==
  SelectSeq(some_movies,
            LAMBDA movie : \/ IsNone(movie.year)
                           \/ \E y \in 1..Len(selected_years) : movie.year = Some(selected_years[y]))

\* movie.year in selected_years
filter_movies_by_years(some_movies, selected_years) ==
  SelectSeq(some_movies,
            LAMBDA movie : \E y \in 1..Len(selected_years) : movie.year = Some(selected_years[y]))

\* movie_matches[movie] = match_score: a dict keeps one entry per key; a key is
\* found again when the hashes agree and __eq__ holds; the entry keeps its
\* first key and position and takes the new value
dict_set(d, movie, score) ==
  LET same == {i \in 1..Len(d) : MovieHash(d[i].movie) = MovieHash(movie) /\ MovieEq(d[i].movie, movie)}
  IN  IF same = {} THEN Append(d, [movie |-> movie, score |-> score])
      ELSE [i \in 1..Len(d) |-> IF i \in same THEN [movie |-> d[i].movie, score |-> score] ELSE d[i]]

\* the loop of search_movies that fills movie_matches; scores[i] is the
\* match_score of site_movies[i]
RECURSIVE movie_matches(_, _, _)
movie_matches(site_movies, scores, min_match_score) ==
  IF site_movies = <<>> THEN <<>>
  ELSE LET n == Len(site_movies)
           movie == site_movies[n]
           d == movie_matches(SubSeq(site_movies, 1, n - 1), scores, min_match_score)
           score == scores[n]
       IN  IF RatGeq(score, <<min_match_score, 1>>) THEN dict_set(d, movie, score) ELSE d

\* mutant: the ranking sorted without reverse=True
movies_sorted_by_score_ascending(site_movies, scores, min_match_score) ==
  LET d == movie_matches(site_movies, scores, min_match_score)
      n == Len(d)
      rank == [i \in 1..n |->
                 Cardinality({j \in 1..n : \/ RatLess(d[j].score, d[i].score)
                                           \/ RatEq(d[i].score, d[j].score) /\ j < i}) + 1]
  IN  [p \in 1..n |-> d[CHOOSE i \in 1..n : rank[i] = p].movie]

\* sorted(movie_matches.items(), key=lambda x: x[1], reverse=True), movies only
movies_sorted_by_score(site_movies, scores, min_match_score) ==
  LET d == movie_matches(site_movies, scores, min_match_score)
      n == Len(d)
      rank == [i \in 1..n |->
                 Cardinality({j \in 1..n : \/ RatLess(d[i].score, d[j].score)
                                           \/ RatEq(d[i].score, d[j].score) /\ j < i}) + 1]
  IN  [p \in 1..n |-> d[CHOOSE i \in 1..n : rank[i] = p].movie]

\* a list used as a condition: None and [] are false
Truthy(opt_list) == ~IsNone(opt_list) /\ opt_list[1] # <<>>

\* if filter_tags: ...  if filter_years: ...
apply_filters(some_movies, filter_tags, filter_years) ==
  LET by_tags == IF Truthy(filter_tags) THEN filter_movies_by_tags(some_movies, filter_tags[1])
                 ELSE some_movies
  IN  IF Truthy(filter_years) THEN filter_movies_by_years(by_tags, filter_years[1])
      ELSE by_tags

\* mutant: the early limit is never applied
limit_before_never(some_movies, max_items, limit_before_sort) == some_movies

\* if limit_before_sort and max_items is not None: ...[:max_items]
limit_before(some_movies, max_items, limit_before_sort) ==
  IF limit_before_sort /\ ~IsNone(max_items) THEN Take(some_movies, max_items) ELSE some_movies

SortKeys == {"match_score", "title", "rating", "year", "date_added"}

\* mutant: the sorted catalog is returned without filtering out the records
\* that are not in the ranking
sort_by_key_unfiltered(site_movies, ranking, sort_key, reverse) ==
  IF sort_key = "match_score" THEN ranking
  ELSE IF sort_key = "title" THEN get_movies_sorted_by_title(site_movies, None, reverse)
  ELSE IF sort_key = "rating" THEN get_movies_sorted_by_rating(site_movies, None, reverse)
  ELSE IF sort_key = "year" THEN get_movies_sorted_by_year(site_movies, None, reverse)
  ELSE get_movies_sorted_by_date_added(site_movies, None, reverse)

\* the list the sort key selects: the ranking itself, or the whole catalog in
\* the key's order with the records not in the ranking filtered out
sort_by_key(site_movies, ranking, sort_key, reverse) ==
  LET result_movies ==
        IF sort_key = "match_score" THEN ranking
        ELSE IF sort_key = "title" THEN get_movies_sorted_by_title(site_movies, None, reverse)
        ELSE IF sort_key = "rating" THEN get_movies_sorted_by_rating(site_movies, None, reverse)
        ELSE IF sort_key = "year" THEN get_movies_sorted_by_year(site_movies, None, reverse)
        ELSE get_movies_sorted_by_date_added(site_movies, None, reverse)
  IN  IF sort_key # "match_score"
      THEN SelectSeq(result_movies, LAMBDA m : MovieInList(m, ranking))
      ELSE result_movies

\* if not limit_before_sort and max_items is not None: ...[:max_items]
limit_after(some_movies, max_items, limit_before_sort) ==
  IF ~limit_before_sort /\ ~IsNone(max_items) THEN Take(some_movies, max_items) ELSE some_movies

\* MovieSite.search_movies; a is the record of its arguments
search_movies(site_movies, a) ==
  LET scores == title_scores(site_movies, lower(a.phrase))
      ranked == movies_sorted_by_score(site_movies, scores, a.min_match_score)
      filtered == apply_filters(ranked, a.filter_tags, a.filter_years)
      limited == limit_before(filtered, a.max_items, a.limit_before_sort)
  IN  IF scoring_error(scores) # ""
      THEN [raised |-> scoring_error(scores), value |-> <<>>]
      ELSE IF a.sort_key \notin SortKeys
      THEN [raised |-> "ValueError", value |-> <<>>]
      ELSE IF sort_error(site_movies, a.sort_key, a.reverse) # ""
      THEN [raised |-> sort_error(site_movies, a.sort_key, a.reverse), value |-> <<>>]
      ELSE [raised |-> "",
            value |-> limit_after(sort_by_key(site_movies, limited, a.sort_key, a.reverse),
                                  a.max_items, a.limit_before_sort)]

-----------------------------------------------------------------------------
(* Watchlist (watchlist.py) *)

\* The Polish letters stand as two-character tokens: "a," is a-ogonek, "l/" is
\* l-stroke, "z'" is z-acute, "z." is z-dot, and so on; "@" is the marker
\* character of custom_mapping.
custom_mapping(char) ==
  CASE char = "l/" -> <<"l", "@">>  [] char = "a," -> <<"a", "@">>
    [] char = "c'" -> <<"c", "@">>  [] char = "e," -> <<"e", "@">>
    [] char = "o'" -> <<"o", "@">>  [] char = "s'" -> <<"s", "@">>
    [] char = "z'" -> <<"z", "@">>  [] char = "z." -> <<"z", "@">>
    [] char = "L/" -> <<"L", "@">>  [] char = "A," -> <<"A", "@">>
    [] char = "C'" -> <<"C", "@">>  [] char = "E," -> <<"E", "@">>
    [] char = "O'" -> <<"O", "@">>  [] char = "S'" -> <<"S", "@">>
    [] char = "Z'" -> <<"Z", "@">>  [] char = "Z." -> <<"Z", "@">>
    [] OTHER -> <<char>>

\* Watchlist._preprocess_title
RECURSIVE preprocess_title(_)
preprocess_title(title) ==
  IF title = <<>> THEN <<>>
  ELSE custom_mapping(Head(title)) \o preprocess_title(Tail(title))

\* pyuca's collator.sort_key: the primary weights of the characters, a zero,
\* then their case weights
collator_sort_key(s) ==
  [i \in 1..Len(s) |-> PrimaryWeight(s[i])] \o <<0>> \o
  [i \in 1..Len(s) |-> CaseWeight(s[i])]

\* Watchlist._get_sort_key: the value returned under cache
get_sort_key(cache, title) ==
  LET preprocessed_title == preprocess_title(title)
  IN  IF preprocessed_title \notin DOMAIN cache
      THEN collator_sort_key(preprocessed_title)
      ELSE cache[preprocessed_title]

\* mutant: the key stored for a title is the key of the empty string
cache_after_sort_empty_keys(cache, some_entries) ==
  LET asked == {preprocess_title(some_entries[i].movie.title) : i \in 1..Len(some_entries)}
  IN  [t \in DOMAIN cache \cup asked |->
         IF t \in DOMAIN cache THEN cache[t] ELSE collator_sort_key(<<>>)]

\* Watchlist._get_sort_key: the cache after the key of every entry's title was asked for
cache_after_sort(cache, some_entries) ==
  LET asked == {preprocess_title(some_entries[i].movie.title) : i \in 1..Len(some_entries)}
  IN  [t \in DOMAIN cache \cup asked |->
         IF t \in DOMAIN cache THEN cache[t] ELSE collator_sort_key(t)]

\* MovieEntry.__init__: date_added = date_added or date.today()
MovieEntry(movie, rating, day) == [movie |-> movie, rating |-> rating, date_added |-> day]

\* mutant: a movie is on the watchlist only as the very same object
has_movie_same_object(some_entries, movie) ==
  \E i \in 1..Len(some_entries) : some_entries[i].movie.id = movie.id

\* Watchlist.has_movie
has_movie(some_entries, movie) ==
  \E i \in 1..Len(some_entries) : MovieEq(some_entries[i].movie, movie)

\* Watchlist.add_movie
add_movie(some_entries, movie, rating, day) ==
  IF has_movie(some_entries, movie) THEN some_entries
  ELSE Append(some_entries, MovieEntry(movie, rating, day))

\* Watchlist.remove_movie
remove_movie(some_entries, movie) ==
  SelectSeq(some_entries, LAMBDA entry : ~MovieEq(entry.movie, movie))

\* Watchlist.update_rating: the first entry of the movie takes the rating
update_rating(some_entries, movie, new_rating) ==
  LET hits == {i \in 1..Len(some_entries) : MovieEq(some_entries[i].movie, movie)}
  IN  IF hits = {} THEN some_entries
      ELSE LET first == CHOOSE i \in hits : \A j \in hits : i <= j
           IN  [some_entries EXCEPT ![first].rating = new_rating]

get_entries_sorted_by_title(some_entries, cache, max_items, reverse) ==
  LET keys == [i \in 1..Len(some_entries) |-> get_sort_key(cache, some_entries[i].movie.title)]
      sorted_entries == IF reverse THEN sorted_reverse(some_entries, keys)
                        ELSE sorted(some_entries, keys)
  IN  Take(sorted_entries, max_items)

get_entries_sorted_by_date(some_entries, cache, max_items, reverse) ==
  LET keys == [i \in 1..Len(some_entries) |->
                 IF ~reverse
                 THEN <<some_entries[i].date_added>> \o get_sort_key(cache, some_entries[i].movie.title)
                 ELSE <<-some_entries[i].date_added>> \o get_sort_key(cache, some_entries[i].movie.title)]
      sorted_entries == sorted(some_entries, keys)
  IN  Take(sorted_entries, max_items)

\* mutant: reverse is handed to sorted(...) instead of negating the rating
get_entries_sorted_by_rating_reverse_sorted(some_entries, cache, max_items, reverse) ==
  LET keys == [i \in 1..Len(some_entries) |->
                 <<primary(replace_none(some_entries[i].rating, 0))>>
                   \o get_sort_key(cache, some_entries[i].movie.title)]
      sorted_entries == IF reverse THEN sorted_reverse(some_entries, keys)
                        ELSE sorted(some_entries, keys)
  IN  Take(sorted_entries, max_items)

get_entries_sorted_by_rating(some_entries, cache, max_items, reverse) ==
  LET keys == [i \in 1..Len(some_entries) |->
                 IF ~reverse
                 THEN <<primary(replace_none(some_entries[i].rating, 0))>> \o get_sort_key(cache, some_entries[i].movie.title)
                 ELSE <<-primary(replace_none(some_entries[i].rating, 0))>> \o get_sort_key(cache, some_entries[i].movie.title)]
      sorted_entries == sorted(some_entries, keys)
  IN  Take(sorted_entries, max_items)

WatchlistSortKeys == {"title", "date_added", "rating"}

\* watchlist.get_entries_sorted_by_<sort_key>(max_items, reverse) as its
\* caller sees it: the error raised, or the list returned ("date_added" is
\* get_entries_sorted_by_date)
get_entries_sorted_by(some_entries, cache, sort_key, max_items, reverse) ==
  IF /\ sort_key = "rating"
     /\ raises_TypeError([i \in 1..Len(some_entries) |-> replace_none(some_entries[i].rating, 0)],
                         reverse)
  THEN [raised |-> "TypeError", value |-> <<>>]
  ELSE [raised |-> "",
        value |-> IF sort_key = "title"
                  THEN get_entries_sorted_by_title(some_entries, cache, max_items, reverse)
                  ELSE IF sort_key = "date_added"
                  THEN get_entries_sorted_by_date(some_entries, cache, max_items, reverse)
                  ELSE get_entries_sorted_by_rating(some_entries, cache, max_items, reverse)]

\* mutant: an unrecognised key falls back to the unsorted entries, as in get_csv
get_entries_fallback(some_entries, cache, sort_key, reverse) ==
  IF sort_key = "title"
  THEN [raised |-> "", value |-> get_entries_sorted_by_title(some_entries, cache, None, reverse)]
  ELSE IF sort_key = "date_added"
  THEN [raised |-> "", value |-> get_entries_sorted_by_date(some_entries, cache, None, reverse)]
  ELSE IF sort_key = "rating"
  THEN [raised |-> "", value |-> get_entries_sorted_by_rating(some_entries, cache, None, reverse)]
  ELSE [raised |-> "", value |-> some_entries]

\* Watchlist.get_entries
get_entries(some_entries, cache, sort_key, reverse) ==
  IF sort_key = "title"
  THEN [raised |-> "", value |-> get_entries_sorted_by_title(some_entries, cache, None, reverse)]
  ELSE IF sort_key = "date_added"
  THEN [raised |-> "", value |-> get_entries_sorted_by_date(some_entries, cache, None, reverse)]
  ELSE IF sort_key = "rating"
  THEN [raised |-> "", value |-> get_entries_sorted_by_rating(some_entries, cache, None, reverse)]
  ELSE [raised |-> "ValueError", value |-> <<>>]

\* the rows get_csv writes: the header, then one row per entry
csv_rows(sorted_entries) ==
  << <<"Tytul", "Data dodania", "Ocena">> >> \o
  [i \in 1..Len(sorted_entries) |->
     <<sorted_entries[i].movie.title, sorted_entries[i].date_added,
       IF ~IsNone(sorted_entries[i].rating) THEN sorted_entries[i].rating ELSE <<"Brak">> >>]

\* Watchlist.get_csv
get_csv(some_entries, cache, sort_key, reverse) ==
  LET sorted_entries ==
        IF sort_key = "title" THEN get_entries_sorted_by_title(some_entries, cache, None, reverse)
        ELSE IF sort_key = "date_added" THEN get_entries_sorted_by_date(some_entries, cache, None, reverse)
        ELSE IF sort_key = "rating" THEN get_entries_sorted_by_rating(some_entries, cache, None, reverse)
        ELSE some_entries
  IN  [raised |-> "", value |-> csv_rows(sorted_entries)]

\* the cache after get_entries or get_csv: the sorts ask for every entry's key
cache_after_call(some_entries, cache, sort_key) ==
  IF sort_key \in WatchlistSortKeys THEN cache_after_sort(cache, some_entries) ELSE cache

-----------------------------------------------------------------------------
(* The inputs of the operations *)

\* "", "ab", "B c"
Phrases == { <<>>, <<"a", "b">>, <<"B", " ", "c">> }

MaxItemsValues == {None} \cup {Some(n) : n \in 0..MaxItems}

MIN_MATCH_SCORE == 35

MAX_ROWS_SEARCH == 20

MinScores == {0, MIN_MATCH_SCORE}

\* the recognised sort keys and one that is not
SortKeyInputs == SortKeys \cup {"length"}

\* the sort keys of the search panel: User.__init__ sets sort_key_search to ''
PanelSortKeys == SortKeys \cup {""}

\* tag lists: "x" and "y" are whole tags of the payloads, "xy" is the one tag of
\* the second payload
TagLists == { <<>>, << <<"x">> >>, << <<"x">>, <<"y">> >>, << <<"x", "y">> >> }

YearLists == { <<>>, <<1999>>, <<1999, 2003>> }

\* (filter_tags, filter_years): both absent; [x] and []; absent and [1999]; [x] and [1999]
FilterInputs ==
  { <<None, None>>, <<Some(<< <<"x">> >>), Some(<<>>)>>,
    <<None, Some(<<1999>>)>>, <<Some(<< <<"x">> >>), Some(<<1999>>)>> }

SearchArgs ==
  { [phrase |-> ph, max_items |-> mi, min_match_score |-> ms, sort_key |-> sk,
     reverse |-> rv, limit_before_sort |-> lb, filter_tags |-> f[1], filter_years |-> f[2]] :
    ph \in Phrases, mi \in MaxItemsValues, ms \in MinScores, sk \in SortKeyInputs,
    rv \in BOOLEAN, lb \in BOOLEAN, f \in FilterInputs }

\* the calls of the search panel (main.py, search_movie): the score threshold
\* and the early limit are set only when the user typed a query
PanelSearchArgs ==
  { [phrase |-> ph, max_items |-> Some(MAX_ROWS_SEARCH),
     min_match_score |-> IF ph # <<>> THEN MIN_MATCH_SCORE ELSE 0, sort_key |-> sk,
     reverse |-> rv, limit_before_sort |-> ph # <<>>,
     filter_tags |-> Some(<<>>), filter_years |-> Some(<<>>)] :
    ph \in Phrases, sk \in PanelSortKeys, rv \in BOOLEAN }

\* batches of payloads handed to add_movies
Batches == {<<p>> : p \in MoviePayloads} \cup {<<p, q>> : p, q \in MoviePayloads}

\* the data a site is constructed with when the watchlist is exercised
SiteData ==
  << [title |-> <<"a", "b">>, year |-> Some(1999), length |-> Some(90),
      rating |-> Some(8), tags |-> <<"x", ",", " ", "y">>],
     [title |-> <<"A", "b", " ", "c">>, year |-> Some(2003), length |-> Some(90),
      rating |-> Some(8), tags |-> <<"x">>],
     [title |-> <<"a", "b">>, year |-> Some(1999), length |-> Some(100),
      rating |-> None, tags |-> <<"x", "y">>],
     [title |-> <<>>, year |-> None, length |-> None,
      rating |-> Some(5), tags |-> <<>>] >>

\* the strings the similarity functions are compared on: every string of at
\* most MaxLen characters over a lower-case letter, an upper-case letter and
\* the space
Alphabet == {"a", "B", " "}

Strings == UNION {[1..n -> Alphabet] : n \in 0..MaxLen}

\* ratings given with add_movie and update_rating
Ratings == {None, Some(7)}

NewRatings == {7}

WatchlistSortKeyInputs == WatchlistSortKeys \cup {"year", ""}

-----------------------------------------------------------------------------
(* State machine.  call is "idle" when no call is in progress at the caller, *)
(* else the operation, its arguments and what it returned or raised.        *)

Idle == [op |-> "idle"]

\* the global values the bot starts with: not locked, no users, no sites
NoBot == [g_locked |-> FALSE, g_users |-> <<>>, g_sites |-> <<>>]

\* no users.pkl yet: load_pkl returns its default, no users
NoFile == [g_users |-> <<>>, entries |-> <<>>, sort_title_cache |-> <<>>]

\* MovieSite.__init__ with no data, Watchlist.__init__
Init ==
  /\ movies = <<>>
  /\ entries = <<>>
  /\ sort_title_cache = <<>>
  /\ today = 0
  /\ bot = NoBot
  /\ users_pkl = NoFile
  /\ call = Idle

\* MovieSite.__init__ with SiteData, Watchlist.__init__
InitWatchlist ==
  /\ movies = add_movies(<<>>, SiteData, TRUE)
  /\ entries = <<>>
  /\ sort_title_cache = <<>>
  /\ today = 0
  /\ bot = NoBot
  /\ users_pkl = NoFile
  /\ call = Idle

\* site.add_movies(new_movies, duplicates)
AddMovies ==
  /\ call = Idle
  /\ \E new_movies \in Batches, duplicates \in BOOLEAN :
        /\ Len(movies) + Len(new_movies) <= MaxMovies
        /\ movies' = add_movies(movies, new_movies, duplicates)
        /\ call' = [op |-> "add_movies", new_movies |-> new_movies, duplicates |-> duplicates]
  /\ UNCHANGED <<entries, sort_title_cache, today, bot, users_pkl>>

\* site.search_movies(phrase, max_items, ...) with the arguments a
DoSearch(a) ==
  /\ call' = [op |-> "search_movies", args |-> a, result |-> search_movies(movies, a)]
  /\ UNCHANGED <<movies, entries, sort_title_cache, today, bot, users_pkl>>

\* any call of site.search_movies
SearchMovies ==
  /\ call = Idle
  /\ \E a \in SearchArgs : DoSearch(a)

\* the call of site.search_movies by the search panel
PanelSearch ==
  /\ call = Idle
  /\ \E a \in PanelSearchArgs : DoSearch(a)

\* site.filter_movies_by_tags(site.movies, selected_tags)
FilterMoviesByTags ==
  /\ call = Idle
  /\ \E selected_tags \in TagLists :
        call' = [op |-> "filter_movies_by_tags", selected_tags |-> selected_tags,
                 result |-> filter_movies_by_tags(movies, selected_tags)]
  /\ UNCHANGED <<movies, entries, sort_title_cache, today, bot, users_pkl>>

\* site.filter_movies_by_years(site.movies, selected_years)
FilterMoviesByYears ==
  /\ call = Idle
  /\ \E selected_years \in YearLists :
        call' = [op |-> "filter_movies_by_years", selected_years |-> selected_years,
                 result |-> filter_movies_by_years(movies, selected_years)]
  /\ UNCHANGED <<movies, entries, sort_title_cache, today, bot, users_pkl>>

\* the two filters applied to site.movies one after the other, in both orders
ComposeFilters ==
  /\ call = Idle
  /\ \E selected_tags \in TagLists, selected_years \in YearLists :
        call' = [op |-> "compose_filters", selected_tags |-> selected_tags,
                 selected_years |-> selected_years,
                 tags_then_years |->
                   filter_movies_by_years(filter_movies_by_tags(movies, selected_tags),
                                          selected_years),
                 years_then_tags |->
                   filter_movies_by_tags(filter_movies_by_years(movies, selected_years),
                                         selected_tags)]
  /\ UNCHANGED <<movies, entries, sort_title_cache, today, bot, users_pkl>>

\* site.get_movies_sorted_by_<sort_key>(max_items, reverse)
DoGetMoviesSortedBy(sort_key) ==
  /\ call = Idle
  /\ \E max_items \in MaxItemsValues, reverse \in BOOLEAN :
        call' = [op |-> "get_movies_sorted_by", sort_key |-> sort_key,
                 max_items |-> max_items, reverse |-> reverse,
                 result |-> get_movies_sorted_by(movies, sort_key, max_items, reverse)]
  /\ UNCHANGED <<movies, entries, sort_title_cache, today, bot, users_pkl>>

GetMoviesSortedByTitle == DoGetMoviesSortedBy("title")

GetMoviesSortedByRating == DoGetMoviesSortedBy("rating")

GetMoviesSortedByYear == DoGetMoviesSortedBy("year")

GetMoviesSortedByDateAdded == DoGetMoviesSortedBy("date_added")

\* watchlist.add_movie(movie, rating) for a movie of the site
AddMovie ==
  /\ call = Idle
  /\ \E i \in 1..Len(movies), rating \in Ratings :
        /\ has_movie(entries, movies[i]) \/ Len(entries) < MaxEntries
        /\ entries' = add_movie(entries, movies[i], rating, today)
        /\ call' = [op |-> "add_movie", movie |-> movies[i], rating |-> rating]
  /\ UNCHANGED <<movies, sort_title_cache, today, bot, users_pkl>>

\* watchlist.remove_movie(movie)
RemoveMovie ==
  /\ call = Idle
  /\ \E i \in 1..Len(movies) :
        /\ entries' = remove_movie(entries, movies[i])
        /\ call' = [op |-> "remove_movie", movie |-> movies[i]]
  /\ UNCHANGED <<movies, sort_title_cache, today, bot, users_pkl>>

\* watchlist.update_rating(movie, new_rating)
UpdateRating ==
  /\ call = Idle
  /\ \E i \in 1..Len(movies), new_rating \in NewRatings :
        /\ entries' = update_rating(entries, movies[i], Some(new_rating))
        /\ call' = [op |-> "update_rating", movie |-> movies[i], new_rating |-> new_rating]
  /\ UNCHANGED <<movies, sort_title_cache, today, bot, users_pkl>>

\* watchlist.get_entries(sort_key, reverse)
GetEntries ==
  /\ call = Idle
  /\ \E sort_key \in WatchlistSortKeyInputs, reverse \in BOOLEAN :
        /\ call' = [op |-> "get_entries", sort_key |-> sort_key, reverse |-> reverse,
                    result |-> get_entries(entries, sort_title_cache, sort_key, reverse)]
        /\ sort_title_cache' = cache_after_call(entries, sort_title_cache, sort_key)
  /\ UNCHANGED <<movies, entries, today, bot, users_pkl>>

\* watchlist.get_entries_sorted_by_<sort_key>(max_items, reverse)
DoGetEntriesSortedBy(sort_key) ==
  /\ call = Idle
  /\ \E max_items \in MaxItemsValues, reverse \in BOOLEAN :
        call' = [op |-> "get_entries_sorted_by", sort_key |-> sort_key,
                 max_items |-> max_items, reverse |-> reverse,
                 result |-> get_entries_sorted_by(entries, sort_title_cache, sort_key,
                                                  max_items, reverse)]
  /\ sort_title_cache' = cache_after_sort(sort_title_cache, entries)
  /\ UNCHANGED <<movies, entries, today, bot, users_pkl>>

GetEntriesSortedByTitle == DoGetEntriesSortedBy("title")

GetEntriesSortedByDate == DoGetEntriesSortedBy("date_added")

GetEntriesSortedByRating == DoGetEntriesSortedBy("rating")

\* watchlist.get_csv(sort_key, reverse)
GetCsv ==
  /\ call = Idle
  /\ \E sort_key \in WatchlistSortKeyInputs, reverse \in BOOLEAN :
        /\ call' = [op |-> "get_csv", sort_key |-> sort_key, reverse |-> reverse,
                    result |-> get_csv(entries, sort_title_cache, sort_key, reverse)]
        /\ sort_title_cache' = cache_after_call(entries, sort_title_cache, sort_key)
  /\ UNCHANGED <<movies, entries, today, bot, users_pkl>>

\* the three similarity functions called on (s1, s2), and the match_score
\* search_movies computes for the query s1 and the title s2
Compare ==
  /\ call = Idle
  /\ \E s1 \in Strings, s2 \in Strings :
        call' = [op |-> "compare", s1 |-> s1, s2 |-> s2,
                 smp |-> simple_match_percentage(s1, s2),
                 ldp |-> levenshtein_distance_percentage(s1, s2),
                 lcsp |-> longest_common_substring_percentage(s1, s2),
                 match_score |-> match_score(lower(s1), lower(s2))]
  /\ UNCHANGED <<movies, entries, sort_title_cache, today, bot, users_pkl>>

\* the caller takes the result; the next call can start
Return ==
  /\ call # Idle
  /\ call' = Idle
  /\ UNCHANGED <<movies, entries, sort_title_cache, today, bot, users_pkl>>

\* the catalog and its searches
Next ==
  \/ AddMovies
  \/ SearchMovies
  \/ FilterMoviesByTags
  \/ FilterMoviesByYears
  \/ ComposeFilters
  \/ GetMoviesSortedByTitle
  \/ GetMoviesSortedByRating
  \/ GetMoviesSortedByYear
  \/ GetMoviesSortedByDateAdded
  \/ Return

Spec == Init /\ [][Next]_vars

\* a user's watchlist over a loaded site
NextWatchlist ==
  \/ AddMovie
  \/ RemoveMovie
  \/ UpdateRating
  \/ GetEntries
  \/ GetCsv
  \/ PanelSearch
  \/ Return

SpecWatchlist == InitWatchlist /\ [][NextWatchlist]_vars

\* the ordered views of a loaded site and of a user's watchlist
NextSorted ==
  \/ AddMovie
  \/ RemoveMovie
  \/ UpdateRating
  \/ GetEntriesSortedByTitle
  \/ GetEntriesSortedByDate
  \/ GetEntriesSortedByRating
  \/ GetMoviesSortedByTitle
  \/ GetMoviesSortedByRating
  \/ GetMoviesSortedByYear
  \/ GetMoviesSortedByDateAdded
  \/ PanelSearch
  \/ Return

SpecSorted == InitWatchlist /\ [][NextSorted]_vars

\* the similarity functions on their own
NextSimilarity ==
  \/ Compare
  \/ Return

SpecSimilarity == Init /\ [][NextSimilarity]_vars


-----------------------------------------------------------------------------
(* Searching a site by title: a query against titles that equal it, contain *)
(* it or do neither, one of them a long title                               *)

\* a title of 200 characters: "B" followed by 199 times "a"
LongTitle == [i \in 1..200 |-> IF i = 1 THEN "B" ELSE "a"]

\* the data of the site: "aB", "aB a", "BB" and the long title
TitleData ==
  << [title |-> <<"a", "B">>, year |-> Some(1999), length |-> Some(90),
      rating |-> Some(8), tags |-> <<"x">>],
     [title |-> <<"a", "B", " ", "a">>, year |-> Some(2003), length |-> Some(90),
      rating |-> Some(8), tags |-> <<"x">>],
     [title |-> <<"B", "B">>, year |-> Some(2010), length |-> Some(90),
      rating |-> Some(8), tags |-> <<"x">>],
     [title |-> LongTitle, year |-> Some(2020), length |-> Some(90),
      rating |-> Some(8), tags |-> <<"x">>] >>

\* the score thresholds of a search by title
TitleMinScores == {0, MIN_MATCH_SCORE, 95}

\* MovieSite.__init__ with TitleData
InitTitles ==
  /\ movies = add_movies(<<>>, TitleData, TRUE)
  /\ entries = <<>>
  /\ sort_title_cache = <<>>
  /\ today = 0
  /\ bot = NoBot
  /\ users_pkl = NoFile
  /\ call = Idle

\* site.search_movies(phrase, min_match_score=...) with a non-empty phrase, the
\* other parameters at their defaults
SearchByTitle ==
  /\ call = Idle
  /\ \E ph \in Strings \ {<<>>}, ms \in TitleMinScores :
        DoSearch([phrase |-> ph, max_items |-> None, min_match_score |-> ms,
                  sort_key |-> "match_score", reverse |-> FALSE,
                  limit_before_sort |-> FALSE,
                  filter_tags |-> None, filter_years |-> None])

NextTitles ==
  \/ SearchByTitle
  \/ Return

SpecTitles == InitTitles /\ [][NextTitles]_vars


-----------------------------------------------------------------------------
(* A catalog that grows by add_movies and is read in insertion order *)

NextCatalog ==
  \/ AddMovies
  \/ GetMoviesSortedByDateAdded
  \/ Return

SpecCatalog == Init /\ [][NextCatalog]_vars


-----------------------------------------------------------------------------
(* Watchlist._get_sort_key, statement by statement, run by two handlers that *)
(* share the watchlist's _sort_title_cache                                   *)

Handlers == {1, 2}

\* the titles whose keys are asked for: "ab", "Ab", z-acute and z-dot
SortedTitles == { <<"a", "b">>, <<"A", "b">>, <<"z'">>, <<"z.">> }

\* a handler outside _get_sort_key
Outside == [pc |-> "outside"]

\* mutant: the assignment leaves a dict that holds the new item only
cache_set_alone(cache, preprocessed_title, key) ==
  [t \in {preprocessed_title} |-> key]

\* self._sort_title_cache[preprocessed_title] = key
cache_set(cache, preprocessed_title, key) ==
  [t \in DOMAIN cache \cup {preprocessed_title} |->
     IF t = preprocessed_title THEN key ELSE cache[t]]

\* Watchlist.__init__; no handler is inside _get_sort_key
InitCache ==
  /\ movies = <<>>
  /\ entries = <<>>
  /\ sort_title_cache = <<>>
  /\ today = 0
  /\ bot = NoBot
  /\ users_pkl = NoFile
  /\ call = [op |-> "_get_sort_key", handler |-> [h \in Handlers |-> Outside]]

\* preprocessed_title = self._preprocess_title(title)
Preprocess ==
  /\ \E h \in Handlers, title \in SortedTitles :
        /\ call.handler[h].pc = "outside"
        /\ call' = [call EXCEPT !.handler[h] =
                      [pc |-> "test", title |-> title,
                       preprocessed_title |-> preprocess_title(title)]]
  /\ UNCHANGED <<movies, entries, sort_title_cache, today, bot, users_pkl>>

\* if preprocessed_title not in self._sort_title_cache
TestCache ==
  /\ \E h \in Handlers :
        /\ call.handler[h].pc = "test"
        /\ call' = [call EXCEPT !.handler[h].pc =
                      IF call.handler[h].preprocessed_title \notin DOMAIN sort_title_cache
                      THEN "store" ELSE "return"]
  /\ UNCHANGED <<movies, entries, sort_title_cache, today, bot, users_pkl>>

\* self._sort_title_cache[preprocessed_title] = collator.sort_key(preprocessed_title)
StoreKey ==
  /\ \E h \in Handlers :
        /\ call.handler[h].pc = "store"
        /\ sort_title_cache' =
             cache_set(sort_title_cache, call.handler[h].preprocessed_title,
                       collator_sort_key(call.handler[h].preprocessed_title))
        /\ call' = [call EXCEPT !.handler[h].pc = "return"]
  /\ UNCHANGED <<movies, entries, today, bot, users_pkl>>

\* return self._sort_title_cache[preprocessed_title]; the subscription raises
\* KeyError when the dict has no such key
ReturnKey ==
  /\ \E h \in Handlers :
        /\ call.handler[h].pc = "return"
        /\ call' = [call EXCEPT !.handler[h] =
                      [pc |-> "returned", title |-> call.handler[h].title,
                       result |->
                         IF call.handler[h].preprocessed_title \in DOMAIN sort_title_cache
                         THEN [raised |-> "",
                               value |-> sort_title_cache[call.handler[h].preprocessed_title]]
                         ELSE [raised |-> "KeyError", value |-> <<>>]]]
  /\ UNCHANGED <<movies, entries, sort_title_cache, today, bot, users_pkl>>

\* the caller of _get_sort_key goes on
Resume ==
  /\ \E h \in Handlers :
        /\ call.handler[h].pc = "returned"
        /\ call' = [call EXCEPT !.handler[h] = Outside]
  /\ UNCHANGED <<movies, entries, sort_title_cache, today, bot, users_pkl>>

NextCache ==
  \/ Preprocess
  \/ TestCache
  \/ StoreKey
  \/ ReturnKey
  \/ Resume

SpecCache == InitCache /\ [][NextCache]_vars


-----------------------------------------------------------------------------
(* The chat layer (main.py).  One member of the channel talks to the bot; the *)
(* coroutines in progress are held in call: the panel handler of the member  *)
(* and the task update_site_data.  A MovieSite object is known by `object`,  *)
(* a number that no other MovieSite object has; movie.site is that number.   *)

MaxRefreshes == 2

\* the member of the channel
Member == 1

\* User.__init__; watchlist_user tells whether watchlist.user is this user
\* ("self") or another object ("copy")
User(member_id) ==
  [id |-> member_id, state |-> "idle", movie_selection_list |-> <<>>,
   selection_input |-> <<>>, search_query |-> <<>>,
   filter_tags |-> <<>>, filter_years |-> <<>>,
   sort_key_search |-> "", sort_ascending_search |-> TRUE,
   sort_key_watchlist |-> "", sort_ascending_watchlist |-> TRUE,
   message_id |-> 0, interaction_task |-> None,
   watchlist_user |-> "self"]

\* is_user(user_id)
is_user(g_users, user_id) == \E i \in 1..Len(g_users) : g_users[i].id = user_id

\* get_user(user_id): the position in bot.g_users of the first user with the id
get_user(g_users, user_id) ==
  CHOOSE i \in 1..Len(g_users) :
    /\ g_users[i].id = user_id
    /\ \A j \in 1..(i - 1) : g_users[j].id # user_id

\* a command of a member: a member not yet in bot.g_users is appended as a new User
with_user(g_users, user_id) ==
  IF is_user(g_users, user_id) THEN g_users ELSE Append(g_users, User(user_id))

\* a MovieSite object as pickle.load builds it: new objects, every movie
\* referring to its site
load_pkl(object, site_movies) ==
  [object |-> object,
   movies |-> [i \in 1..Len(site_movies) |-> [site |-> object] @@ Movie(i, site_movies[i])]]

\* collect_data(): the data on disk (the movies of the sites in use, nothing
\* before the first refresh) joined with the scraped movies, saved and loaded
\* again as new objects
collect_data(g_sites, object, scraped) ==
  LET existing_data == IF g_sites = <<>> THEN <<>> ELSE g_sites[1].movies
      plain == [i \in 1..Len(existing_data) |-> Movie(i, existing_data[i])]
  IN  << load_pkl(object, add_movies(plain, scraped, FALSE)) >>

\* the movies scraped by one refresh
Scraped == {<<>>} \cup Batches

RECURSIVE extend_all(_)
\* result_movies.extend(site_movies) for every list of results
extend_all(lists) ==
  IF lists = <<>> THEN <<>> ELSE Head(lists) \o extend_all(Tail(lists))

\* the search of the panel: site.search_movies(...) for every site of
\* bot.g_sites with the settings of the handler f; the first error raised, or
\* the results joined
panel_search(g_sites, f) ==
  LET a == [phrase |-> f.user_input, max_items |-> Some(MAX_ROWS_SEARCH),
            min_match_score |-> IF f.user_input # <<>> THEN MIN_MATCH_SCORE ELSE 0,
            sort_key |-> f.sort_key, reverse |-> ~f.sort_ascending,
            limit_before_sort |-> f.user_input # <<>>,
            filter_tags |-> Some(f.selected_tags), filter_years |-> Some(f.selected_years)]
      joined(results) ==
        LET failed == {i \in 1..Len(g_sites) : results[i].raised # ""}
        IN  IF failed # {}
            THEN [raised |-> results[CHOOSE i \in failed : \A j \in failed : i <= j].raised,
                  value |-> <<>>]
            ELSE [raised |-> "",
                  value |-> extend_all([i \in 1..Len(g_sites) |-> results[i].value])]
  IN  joined([i \in 1..Len(g_sites) |-> search_movies(g_sites[i].movies, a)])

\* make_search_results_embed(movies): under every site of bot.g_sites the
\* movies whose movie.site is that very site object, in the order of movies
\* (the rows of the bounded catalogs stay below MAX_FIELD_LENGTH)
make_search_results_embed(g_sites, some_movies) ==
  [sites |-> [i \in 1..Len(g_sites) |-> g_sites[i].object],
   movies |-> extend_all([i \in 1..Len(g_sites) |->
                SelectSeq(some_movies, LAMBDA movie : movie.site = g_sites[i].object)])]

\* the coroutines in progress: no handler, update_site_data between two runs
NoTasks ==
  [op |-> "tasks", handler |-> [op |-> "none"],
   update_site_data |-> [pc |-> "loop", data |-> <<>>, runs |-> 0]]

\* the bot after on_ready
InitBot ==
  /\ movies = <<>>
  /\ entries = <<>>
  /\ sort_title_cache = <<>>
  /\ today = 0
  /\ bot = NoBot
  /\ users_pkl = NoFile
  /\ call = NoTasks

\* update_site_data: data = await collect_data.collect_data(), then
\* bot.g_locked = True and the sleep of 3 seconds begins; the movies scraped
\* are one of Scraped
LockSites ==
  /\ call.update_site_data.pc = "loop"
  /\ call.update_site_data.runs < MaxRefreshes
  /\ \E scraped \in Scraped :
        /\ (IF bot.g_sites = <<>> THEN 0 ELSE Len(bot.g_sites[1].movies)) + Len(scraped)
             <= MaxMovies
        /\ call' = [call EXCEPT !.update_site_data =
                      [pc |-> "sleep",
                       data |-> collect_data(bot.g_sites, call.update_site_data.runs + 1, scraped),
                       runs |-> call.update_site_data.runs + 1]]
  /\ bot' = [bot EXCEPT !.g_locked = TRUE]
  /\ UNCHANGED <<movies, entries, sort_title_cache, today, users_pkl>>

\* update_site_data after the sleep: bot.g_sites = data, bot.g_locked = False
SwapSites ==
  /\ call.update_site_data.pc = "sleep"
  /\ bot' = [bot EXCEPT !.g_sites = call.update_site_data.data, !.g_locked = FALSE]
  /\ call' = [call EXCEPT !.update_site_data.pc = "loop", !.update_site_data.data = <<>>]
  /\ UNCHANGED <<movies, entries, sort_title_cache, today, users_pkl>>


\* the user of the member
the_user == bot.g_users[get_user(bot.g_users, Member)]

\* bot.g_users with the user of the member replaced by user
users_with(user) == [bot.g_users EXCEPT ![get_user(bot.g_users, Member)] = user]

\* search_movie, one turn of the main loop up to the wait for a reaction: the
\* search, user.movie_selection_list = result_movies, the panel made and sent
main_loop(g_sites, user, f) ==
  LET shown(found) ==
        IF found.raised # ""
        THEN [user |-> user, handler |-> [op |-> "raised", error |-> found.raised]]
        ELSE [user |-> [user EXCEPT !.movie_selection_list = found.value],
              handler |-> [op |-> "search_movie", pc |-> "reaction",
                           user_input |-> f.user_input,
                           sort_key |-> f.sort_key, sort_ascending |-> f.sort_ascending,
                           selected_tags |-> f.selected_tags,
                           selected_years |-> f.selected_years,
                           result_movies |-> found.value,
                           embed |-> make_search_results_embed(g_sites, found.value)]]
  IN  shown(panel_search(g_sites, f))

\* the command search: nothing while bot.g_locked; else the member becomes a
\* user, and search_movie(ctx.message, is_command=True) is awaited after the
\* old panel message was fetched and deleted
Search ==
  /\ ~bot.g_locked
  /\ \E title \in Phrases :
        call' = [call EXCEPT !.handler =
                   [op |-> "search", pc |-> "fetch_message", content |-> title]]
  /\ bot' = [bot EXCEPT !.g_users = with_user(@, Member)]
  /\ UNCHANGED <<movies, entries, sort_title_cache, today, users_pkl>>

\* search_movie(user_message, bot_message, is_command) down to the first wait
\* for a reaction: the settings of a new search, or the settings the user
\* holds, then the first turn of the main loop
search_movie(g_sites, the, content, is_command) ==
  LET user_input == Take(content, Some(100))
      by_date == user_input = <<>> /\ the.sort_key_search = "match_score"
      user == IF is_command
              THEN [the EXCEPT !.state = "search_movie",
                               !.search_query = user_input,
                               !.sort_ascending_search = TRUE,
                               !.sort_key_search = "match_score",
                               !.filter_tags = <<>>,
                               !.filter_years = <<>>]
              ELSE [the EXCEPT !.state = "search_movie",
                               !.search_query = user_input]
      f == IF is_command
           THEN [user_input |-> user_input,
                 sort_ascending |-> user_input # <<>>,
                 sort_key |-> IF user_input # <<>> THEN "match_score" ELSE "date_added",
                 selected_tags |-> <<>>, selected_years |-> <<>>]
           ELSE [user_input |-> user_input,
                 sort_ascending |-> IF by_date THEN FALSE ELSE the.sort_ascending_search,
                 sort_key |-> IF by_date THEN "date_added" ELSE the.sort_key_search,
                 selected_tags |-> the.filter_tags, selected_years |-> the.filter_years]
  IN  main_loop(g_sites, user, f)

\* search_movie(ctx.message, is_command=True) down to the first wait for a
\* reaction
SearchMovieCommand ==
  /\ call.handler.op = "search"
  /\ LET shown(after) == /\ bot' = [bot EXCEPT !.g_users = users_with(after.user)]
                         /\ call' = [call EXCEPT !.handler = after.handler]
     IN  shown(search_movie(bot.g_sites, the_user, call.handler.content, TRUE))
  /\ UNCHANGED <<movies, entries, sort_title_cache, today, users_pkl>>

\* the reactions of the main loop that this model delivers: the sorting menu
\* and the random movie
MainEmojis == {"sort", "random"}

\* search_movie: the random movie is looked for with
\* site.search_movies(filter_tags=..., filter_years=...), a call without the
\* required phrase: TypeError as soon as bot.g_sites has a site
random_movie(g_sites, user, f) ==
  IF g_sites # <<>>
  THEN [user |-> user, handler |-> [op |-> "raised", error |-> "TypeError"]]
  ELSE [user |-> [user EXCEPT !.movie_selection_list = <<>>],
        handler |-> [f EXCEPT !.pc = "random_reaction",
                              !.embed = make_search_results_embed(g_sites, <<>>)]]

\* search_movie: the reaction selected_emoji of the main loop arrived; the
\* sorting menu shows result_movies again
main_reaction(g_sites, user, f, selected_emoji) ==
  IF selected_emoji = "sort"
  THEN [user |-> user,
        handler |-> [f EXCEPT !.pc = "sort_reaction",
                              !.embed = make_search_results_embed(g_sites, f.result_movies)]]
  ELSE random_movie(g_sites, user, f)

\* search_movie: a reaction of the main loop arrived
MainReaction ==
  /\ call.handler.op = "search_movie"
  /\ call.handler.pc = "reaction"
  /\ \E selected_emoji \in MainEmojis :
        LET shown(after) == /\ bot' = [bot EXCEPT !.g_users = users_with(after.user)]
                            /\ call' = [call EXCEPT !.handler = after.handler]
        IN  shown(main_reaction(bot.g_sites, the_user, call.handler, selected_emoji))
  /\ UNCHANGED <<movies, entries, sort_title_cache, today, users_pkl>>

\* search_movie: the reaction selected_emoji to the random movie arrived:
\* back to the full list, or another random movie
random_reaction(g_sites, user, f, selected_emoji) ==
  IF selected_emoji = "back" THEN main_loop(g_sites, user, f)
  ELSE random_movie(g_sites, user, f)

\* search_movie: a reaction to the random movie arrived
RandomReaction ==
  /\ call.handler.op = "search_movie"
  /\ call.handler.pc = "random_reaction"
  /\ \E selected_emoji \in {"back", "random"} :
        LET shown(after) == /\ bot' = [bot EXCEPT !.g_users = users_with(after.user)]
                            /\ call' = [call EXCEPT !.handler = after.handler]
        IN  shown(random_reaction(bot.g_sites, the_user, call.handler, selected_emoji))
  /\ UNCHANGED <<movies, entries, sort_title_cache, today, users_pkl>>

\* search_movie: the emojis of the sorting menu, sort_options.get(sort_key, {})
\* and the order, reset and accept emojis
sort_emojis(sort_key, sort_ascending) ==
  (IF sort_key \in SortKeys
   THEN {"title", "year", "rating", "date_added"} \ {sort_key} ELSE {})
  \cup (IF sort_key # "match_score"
        THEN {IF sort_ascending THEN "descending" ELSE "ascending", "reset"} ELSE {})
  \cup {"exit"}

\* search_movie: the reaction sort_selected_emoji of the sorting menu arrived:
\* the menu is left, or the settings change, the search runs again and the
\* menu is shown again
sort_reaction(g_sites, the, f, sort_selected_emoji) ==
  LET sort_key == IF sort_selected_emoji = "reset" THEN "match_score"
                  ELSE IF sort_selected_emoji \in {"title", "year", "rating", "date_added"}
                  THEN sort_selected_emoji
                  ELSE f.sort_key
      sort_ascending == IF sort_selected_emoji \in {"reset", "ascending"} THEN TRUE
                        ELSE IF sort_selected_emoji = "descending" THEN FALSE
                        ELSE f.sort_ascending
      sorted_f == [f EXCEPT !.sort_key = sort_key, !.sort_ascending = sort_ascending]
      user == [the EXCEPT !.sort_key_search = sort_key,
                          !.sort_ascending_search = sort_ascending]
      left == sort_selected_emoji = "exit"
      shown(fetched) ==
        IF left \/ fetched.handler.op = "raised" THEN fetched
        ELSE [user |-> fetched.user,
              handler |-> [fetched.handler EXCEPT !.pc = "sort_reaction"]]
  IN  shown(main_loop(g_sites, IF left THEN the ELSE user, IF left THEN f ELSE sorted_f))

\* search_movie: a reaction of the sorting menu arrived
SortReaction ==
  /\ call.handler.op = "search_movie"
  /\ call.handler.pc = "sort_reaction"
  /\ \E sort_selected_emoji \in
          sort_emojis(call.handler.sort_key, call.handler.sort_ascending) :
        LET shown(after) == /\ bot' = [bot EXCEPT !.g_users = users_with(after.user)]
                            /\ call' = [call EXCEPT !.handler = after.handler]
        IN  shown(sort_reaction(bot.g_sites, the_user, call.handler, sort_selected_emoji))
  /\ UNCHANGED <<movies, entries, sort_title_cache, today, users_pkl>>

\* get_user_reaction: asyncio.TimeoutError after INTERACTION_TIMEOUT,
\* end_session sets user.state to idle and the handler returns
Timeout ==
  /\ call.handler.op = "search_movie"
  /\ bot' = [bot EXCEPT !.g_users = users_with([the_user EXCEPT !.state = "idle"])]
  /\ call' = [call EXCEPT !.handler = [op |-> "none"]]
  /\ UNCHANGED <<movies, entries, sort_title_cache, today, users_pkl>>

NextRefresh ==
  \/ Search
  \/ SearchMovieCommand
  \/ MainReaction
  \/ RandomReaction
  \/ SortReaction
  \/ Timeout
  \/ LockSites
  \/ SwapSites

SpecRefresh == InitBot /\ [][NextRefresh]_vars

-----------------------------------------------------------------------------
(* Searching a site with a phrase of spaces only, or with no phrase *)

\* the empty phrase and the phrases made of spaces
BlankPhrases == { <<>>, <<" ">>, <<" ", " ">> }

\* the arguments of SearchArgs with a blank phrase
BlankSearchArgs == { [a EXCEPT !.phrase = ph] : a \in SearchArgs, ph \in BlankPhrases }

\* site.search_movies(phrase, ...) with a blank phrase
SearchBlank ==
  /\ call = Idle
  /\ \E a \in BlankSearchArgs : DoSearch(a)

NextBlank ==
  \/ AddMovies
  \/ SearchBlank
  \/ Return

SpecBlank == Init /\ [][NextBlank]_vars

-----------------------------------------------------------------------------
(* Sessions (main.py): the commands, the text messages and the reactions of  *)
(* the member, each handled by a coroutine that runs up to its next wait.    *)
(* call.handlers holds the coroutines in progress; a handler that waits has  *)
(* the message of its panel, the number of its interaction task and whether  *)
(* the task is pending or was cancelled.  call.channel is the set of panel   *)
(* messages that exist.  The watchlist of the member is entries and          *)
(* sort_title_cache.                                                         *)

MaxHandlers == 2

MaxRestarts == 1

\* the characters str.isdecimal accepts, in the order of their values
DigitChars == <<"0", "1", "2", "3", "4", "5", "6", "7", "8", "9">>

\* str.isdecimal
isdecimal(s) ==
  /\ s # <<>>
  /\ \A i \in 1..Len(s) : \E d \in 1..Len(DigitChars) : DigitChars[d] = s[i]

RECURSIVE int(_)
\* int(s) of a decimal string
int(s) ==
  IF s = <<>> THEN 0
  ELSE 10 * int(SubSeq(s, 1, Len(s) - 1))
       + (CHOOSE d \in 1..Len(DigitChars) : DigitChars[d] = s[Len(s)]) - 1

\* User.copy_without_task: a new User that takes state, movie_selection_list,
\* message_id, search_query and selection_input (and the watchlist) of user
copy_without_task(user) ==
  [User(user.id) EXCEPT !.state = user.state,
                        !.movie_selection_list = user.movie_selection_list,
                        !.message_id = user.message_id,
                        !.interaction_task = None,
                        !.search_query = user.search_query,
                        !.selection_input = user.selection_input]

\* process_state: state_functions
state_functions(state) ==
  IF state = "search_movie" THEN "search_movie"
  ELSE IF state \in {"movie_details_search", "movie_details_watchlist"} THEN "movie_details"
  ELSE IF state = "watchlist_panel" THEN "watchlist_panel"
  ELSE ""

\* mutant: a text that is neither a number nor w starts a search from every
\* state
process_state_text_from_any_state(user, content) ==
  LET old_state == user.state
      returned == [state |-> old_state, handler |-> "", content |-> content]
      run(new_state, c) ==
        [state |-> new_state, handler |-> state_functions(new_state), content |-> c]
  IN  IF isdecimal(content)
      THEN IF /\ int(content) \in 1..Len(user.movie_selection_list)
              /\ old_state \in {"watchlist_panel", "movie_details_watchlist"}
           THEN run("movie_details_watchlist", content)
           ELSE IF old_state \in {"search_movie", "movie_details_search"}
           THEN run("movie_details_search", content)
           ELSE returned
      ELSE IF lower(content) = <<"w">>
      THEN IF old_state = "movie_details_search"
           THEN run("search_movie", user.search_query)
           ELSE IF old_state = "movie_details_watchlist"
           THEN run("watchlist_panel", content)
           ELSE returned
      ELSE run("search_movie", content)

\* process_state down to fetch_message: the new state of the user, the handler
\* to run ("" when process_state returned) and message.content
process_state(user, content) ==
  LET old_state == user.state
      returned == [state |-> old_state, handler |-> "", content |-> content]
      run(new_state, c) ==
        [state |-> new_state, handler |-> state_functions(new_state), content |-> c]
  IN  IF isdecimal(content)
      THEN IF /\ int(content) \in 1..Len(user.movie_selection_list)
              /\ old_state \in {"watchlist_panel", "movie_details_watchlist"}
           THEN run("movie_details_watchlist", content)
           ELSE IF old_state \in {"search_movie", "movie_details_search"}
           THEN run("movie_details_search", content)
           ELSE returned
      ELSE IF lower(content) = <<"w">>
      THEN IF old_state = "movie_details_search"
           THEN run("search_movie", user.search_query)
           ELSE IF old_state = "movie_details_watchlist"
           THEN run("watchlist_panel", content)
           ELSE returned
      ELSE IF old_state \in {"search_movie", "movie_details_search", "movie_details_watchlist"}
      THEN run("search_movie", content)
      ELSE returned

\* movie_details: emoji_to_text for the selected movie
details_emojis(some_entries, selected_movie) ==
  IF has_movie(some_entries, selected_movie) THEN {"remove", "rate"} ELSE {"add"}

\* movie_details(user_message, bot_message) down to the first wait for a
\* reaction; a number out of range is answered and the handler returns
movie_details(the, some_entries, content) ==
  LET input_int == int(content)
  IN  IF input_int \notin 1..Len(the.movie_selection_list)
      THEN [user |-> the, handler |-> [op |-> "returned"]]
      ELSE [user |-> [the EXCEPT !.selection_input = input_int],
            handler |-> [op |-> "movie_details", pc |-> "reaction",
                         selected_movie |-> the.movie_selection_list[input_int],
                         emojis |-> details_emojis(some_entries,
                                                   the.movie_selection_list[input_int]),
                         old_state |-> ""]]

\* movie_details: the reaction selected_emoji arrived: the movie is put on the
\* watchlist or taken off it and the wait starts again, or the rating is
\* asked for and a text is waited for
details_reaction(the, some_entries, f, selected_emoji, day) ==
  IF selected_emoji = "add"
  THEN [user |-> the, entries |-> add_movie(some_entries, f.selected_movie, None, day),
        handler |-> [f EXCEPT !.emojis = {"remove", "rate"}]]
  ELSE IF selected_emoji = "remove"
  THEN [user |-> the, entries |-> remove_movie(some_entries, f.selected_movie),
        handler |-> [f EXCEPT !.emojis = {"add"}]]
  ELSE [user |-> [the EXCEPT !.state = IF the.state = "movie_details_watchlist"
                                       THEN "rate_movie_watchlist"
                                       ELSE "rate_movie_search"],
        entries |-> some_entries,
        handler |-> [f EXCEPT !.pc = "text", !.old_state = the.state]]

\* movie_details: the check of the rating prompt, for a text without comma or
\* point: a number from 1 to 10, or w
rating_check(content) ==
  \/ isdecimal(content) /\ int(content) \in 1..10
  \/ content = <<"w">>

\* movie_details: the text asked for arrived: w goes back and the handler
\* returns, a number becomes the rating and the wait for a reaction starts again
details_text(the, some_entries, f, content) ==
  IF content = <<"w">>
  THEN [user |-> [the EXCEPT !.state = f.old_state], entries |-> some_entries,
        handler |-> [op |-> "returned"]]
  ELSE [user |-> [the EXCEPT !.state = f.old_state],
        entries |-> update_rating(some_entries, f.selected_movie, Some(int(content))),
        handler |-> [f EXCEPT !.pc = "reaction"]]

MAX_ROWS_WATCHLIST == 20

\* watchlist_panel: pages, the slices entries[i:i + MAX_ROWS_WATCHLIST] for
\* i in range(0, len(entries), MAX_ROWS_WATCHLIST)
pages_of(some_entries) ==
  [p \in 1..((Len(some_entries) + MAX_ROWS_WATCHLIST - 1) \div MAX_ROWS_WATCHLIST) |->
     SubSeq(some_entries, (p - 1) * MAX_ROWS_WATCHLIST + 1,
            Min(p * MAX_ROWS_WATCHLIST, Len(some_entries)))]

\* mutant: the rows of every page are numbered from 1
make_watchlist_embed_numbered_from_one(page_entries, page_number) ==
  [page_number |-> page_number,
   rows |-> [i \in 1..Len(page_entries) |-> [e_number |-> i, entry |-> page_entries[i]]]]

\* make_watchlist_embed(page_entries, page_number): the rows of the page,
\* each with its number e_number (the rows of the bounded titles stay below
\* MAX_FIELD_LENGTH)
make_watchlist_embed(page_entries, page_number) ==
  [page_number |-> page_number,
   rows |-> [i \in 1..Len(page_entries) |->
               [e_number |-> i + (page_number - 1) * MAX_ROWS_WATCHLIST,
                entry |-> page_entries[i]]]]

\* watchlist_panel: the page current_page of the handler f is rendered:
\* pages[current_page - 1] is IndexError when there is no such page
page_shown(user, f) ==
  IF f.current_page \notin 1..Len(f.pages)
  THEN [user |-> user, handler |-> [op |-> "raised", error |-> "IndexError"]]
  ELSE [user |-> user,
        handler |-> [f EXCEPT !.embed = make_watchlist_embed(f.pages[f.current_page],
                                                              f.current_page)]]

\* watchlist_panel: the entries sorted, the pages made, the first page shown
\* and user.movie_selection_list set to the movies of the entries
panel_entries(user, f, got) ==
  IF got.raised # ""
  THEN [user |-> user, handler |-> [op |-> "raised", error |-> got.raised]]
  ELSE page_shown([user EXCEPT !.movie_selection_list =
                          [i \in 1..Len(got.value) |-> got.value[i].movie]],
                  [f EXCEPT !.entries = got.value, !.pages = pages_of(got.value),
                            !.current_page = 1])

\* watchlist_panel(user_message, bot_message, is_command) down to the first
\* wait for a reaction; with no entries the empty list is shown and the
\* handler returns
watchlist_panel(the, some_entries, cache, is_command) ==
  LET sort_ascending == IF is_command THEN TRUE ELSE the.sort_ascending_watchlist
      sort_key == IF is_command THEN "title" ELSE the.sort_key_watchlist
      user == [the EXCEPT !.state = "watchlist_panel",
                          !.sort_ascending_watchlist = sort_ascending,
                          !.sort_key_watchlist = sort_key]
      got == get_entries(some_entries, cache, sort_key, ~sort_ascending)
  IN  IF got.raised = "" /\ got.value = <<>>
      THEN [user |-> [user EXCEPT !.movie_selection_list = <<>>],
            handler |-> [op |-> "returned"]]
      ELSE panel_entries(user,
                         [op |-> "watchlist_panel", pc |-> "reaction",
                          sort_key |-> sort_key, sort_ascending |-> sort_ascending,
                          entries |-> <<>>, pages |-> <<>>, current_page |-> 1,
                          embed |-> make_watchlist_embed(<<>>, 1)],
                         got)

\* watchlist_panel: the emojis of the sorting menu, sort_options.get(sort_key, {})
\* and the order and accept emojis
watchlist_sort_emojis(sort_key, sort_ascending) ==
  (IF sort_key \in WatchlistSortKeys THEN WatchlistSortKeys \ {sort_key} ELSE {})
  \cup {IF sort_ascending THEN "descending" ELSE "ascending", "exit"}

\* watchlist_panel: a reaction arrived.  In the main loop the page changes,
\* the list is sent as a file, or the sorting menu opens; in the menu the
\* settings change and the entries are sorted again, or the menu is left for
\* the main loop.  The page is rendered again before the next wait
watchlist_reaction(the, some_entries, cache, f, selected_emoji) ==
  LET sort_key == IF selected_emoji \in WatchlistSortKeys THEN selected_emoji
                  ELSE f.sort_key
      sort_ascending == IF selected_emoji = "descending" THEN FALSE
                        ELSE IF selected_emoji = "ascending" THEN TRUE
                        ELSE f.sort_ascending
      user == [the EXCEPT !.sort_key_watchlist = sort_key,
                          !.sort_ascending_watchlist = sort_ascending]
      listed == [the EXCEPT !.movie_selection_list =
                              [i \in 1..Len(f.entries) |-> f.entries[i].movie]]
      pages_count == Len(f.pages)
  IN  IF f.pc = "reaction"
      THEN IF selected_emoji = "previous" /\ f.current_page > 1
           THEN page_shown(listed, [f EXCEPT !.current_page = @ - 1])
           ELSE IF selected_emoji = "next" /\ f.current_page < pages_count
           THEN page_shown(listed, [f EXCEPT !.current_page = @ + 1])
           ELSE IF selected_emoji = "sort"
           THEN page_shown(the, [f EXCEPT !.pc = "sort_reaction"])
           ELSE page_shown(listed, f)
      ELSE IF selected_emoji = "exit"
      THEN page_shown(listed, [f EXCEPT !.pc = "reaction"])
      ELSE panel_entries(user,
                         [f EXCEPT !.sort_key = sort_key, !.sort_ascending = sort_ascending],
                         get_entries(some_entries, cache, sort_key, ~sort_ascending))

\* a handler that waits for nothing
NoWait == [msg |-> 0, task |-> 0, status |-> "none"]

\* the handlers without the one at position h
without(handlers, h) ==
  [i \in 1..(Len(handlers) - 1) |-> IF i < h THEN handlers[i] ELSE handlers[i + 1]]

\* asyncio.create_task by the handler at position h: the number of the new
\* task, one that no other handler waits for
create_task(handlers, h) ==
  LET free == {n \in 1..(Len(handlers) + 1) :
                 \A i \in 1..Len(handlers) : i # h => handlers[i].task # n}
  IN  CHOOSE n \in free : \A m \in free : n <= m

\* mutant: the old task is left alone
cancel_nothing(handlers, old_task) == handlers

\* if old_task and not old_task.done(): old_task.cancel()
cancel(handlers, old_task) ==
  [i \in 1..Len(handlers) |->
     IF /\ old_task # None
        /\ handlers[i].task = old_task[1]
        /\ handlers[i].status = "pending"
     THEN [handlers[i] EXCEPT !.status = "cancelled"]
     ELSE handlers[i]]

\* get_user_reaction(message, emojis, user, timeout) down to the wait, called
\* by the handler at position h with the locals f: the new task is created,
\* the task the user holds is cancelled if it is pending, the user holds the
\* new task
get_user_reaction(handlers, h, user, f, msg) ==
  LET new_task == create_task(handlers, h)
  IN  [user |-> [user EXCEPT !.interaction_task = Some(new_task)],
       handlers |-> [cancel(handlers, user.interaction_task) EXCEPT
                       ![h] = [msg |-> msg, task |-> new_task, status |-> "pending"] @@ f]]

\* get_user_text(message, user, timeout, check) down to the wait: the tasks
\* are handled as in get_user_reaction
get_user_text(handlers, h, user, f, msg) == get_user_reaction(handlers, h, user, f, msg)

\* the handler at position h ran up to after.handler: it returned, it raised,
\* or it waits for a reaction or for a text on the message msg
awaited(handlers, h, after, msg) ==
  IF after.handler.op = "returned"
  THEN [user |-> after.user, handlers |-> without(handlers, h)]
  ELSE IF after.handler.op = "raised"
  THEN [user |-> after.user, handlers |-> [handlers EXCEPT ![h] = NoWait @@ after.handler]]
  ELSE IF after.handler.pc = "text"
  THEN get_user_text(handlers, h, after.user, after.handler, msg)
  ELSE get_user_reaction(handlers, h, after.user, after.handler, msg)

\* the emojis the handler f waits for (of the main loop of search_movie, the
\* sorting menu and the random movie; the filters are not asked for)
emojis_of(f) ==
  IF f.op = "search_movie"
  THEN IF f.pc = "reaction" THEN MainEmojis
       ELSE IF f.pc = "sort_reaction" THEN sort_emojis(f.sort_key, f.sort_ascending)
       ELSE {"back", "random"}
  ELSE IF f.op = "movie_details"
  THEN IF f.pc = "reaction" THEN f.emojis ELSE {}
  ELSE IF f.pc = "reaction"
  THEN {"sort", "download"}
       \cup (IF Len(f.pages) > 1 /\ f.current_page > 1 THEN {"previous"} ELSE {})
       \cup (IF Len(f.pages) > 1 /\ f.current_page < Len(f.pages) THEN {"next"} ELSE {})
  ELSE watchlist_sort_emojis(f.sort_key, f.sort_ascending)

\* the movies the sites hold when the sessions are exercised
SessionData == <<SiteData[1], SiteData[2]>>

\* bot.g_sites after the first run of update_site_data
SessionSites == collect_data(<<>>, 1, SessionData)

\* the commands and the text messages of the member
SessionCommands ==
  { [name |-> "search", content |-> <<"a", "b">>], [name |-> "watchlist", content |-> <<>>] }

SessionTexts == { <<"1">>, <<"w">>, <<"a", "b">> }

\* the emojis the member clicks
SessionEmojis == {"sort", "title", "exit", "random", "add", "remove", "rate"}

\* no handler is in progress, no panel message exists
NoHandlers == [op |-> "tasks", handlers |-> <<>>, channel |-> {}, restarts |-> 0]

\* the bot after on_ready and the first run of update_site_data
InitSession ==
  /\ movies = <<>>
  /\ entries = <<>>
  /\ sort_title_cache = <<>>
  /\ today = 0
  /\ bot = [NoBot EXCEPT !.g_sites = SessionSites]
  /\ users_pkl = NoFile
  /\ call = NoHandlers

\* the id of a message sent now: one that no message in the channel has and
\* no handler holds
send_message(handlers, channel) ==
  LET used == channel \cup {handlers[i].msg : i \in 1..Len(handlers)} \cup {0}
  IN  CHOOSE n \in 1..Cardinality(used) : n \notin used /\ \A m \in 1..(n - 1) : m \in used

\* the commands search and watchlist: nothing while bot.g_locked; else the
\* member becomes a user and the command goes on to fetch the old panel
CommandOf(commands) ==
  /\ ~bot.g_locked
  /\ Len(call.handlers) < MaxHandlers
  /\ \E c \in commands :
        call' = [call EXCEPT !.handlers =
                   Append(@, NoWait @@ [op |-> c.name, pc |-> "fetch_message",
                                        content |-> c.content])]
  /\ bot' = [bot EXCEPT !.g_users = with_user(@, Member)]
  /\ UNCHANGED <<movies, entries, sort_title_cache, today, users_pkl>>

\* a command of SessionCommands
Command == CommandOf(SessionCommands)

\* the commands search and watchlist after fetch_message: the old panel is
\* deleted if it exists, and search_movie or watchlist_panel runs with
\* is_command=True down to its first wait; the panel is a new message
RunCommand ==
  \E h \in 1..Len(call.handlers) :
    /\ call.handlers[h].op \in {"search", "watchlist"}
    /\ LET f == call.handlers[h]
           channel == call.channel \ {the_user.message_id}
           stored(next, sent, msg) ==
             /\ bot' = [bot EXCEPT !.g_users = users_with(next.user)]
             /\ call' = [call EXCEPT !.handlers = next.handlers,
                                     !.channel = IF sent THEN channel \cup {msg} ELSE channel]
           shown(after, sent, msg) ==
             stored(awaited(call.handlers, h,
                            [after EXCEPT !.user.message_id = IF sent THEN msg ELSE @], msg),
                    sent, msg)
           sent(after, msg) == shown(after, after.handler.op # "raised", msg)
       IN  /\ sent(IF f.op = "search"
                   THEN search_movie(bot.g_sites, the_user, f.content, TRUE)
                   ELSE watchlist_panel(the_user, entries, sort_title_cache, TRUE),
                   send_message(call.handlers, channel))
           /\ sort_title_cache' =
                IF f.op = "watchlist" THEN cache_after_call(entries, sort_title_cache, "title")
                ELSE sort_title_cache
    /\ UNCHANGED <<movies, entries, today, users_pkl>>

\* the pending waits for a text whose check accepts content
text_waits(handlers, content) ==
  {i \in 1..Len(handlers) :
     /\ handlers[i].status = "pending"
     /\ handlers[i].pc = "text"
     /\ rating_check(content)}

\* a text message of the member.  on_message: nothing while bot.g_locked,
\* else process_state sets user.state and goes on to fetch the panel for the
\* handler of the new state.  A handler that waits for the text goes on with it
OnMessageOf(texts) ==
  \E content \in texts :
    LET ps == process_state(the_user, content)
        handled == ~bot.g_locked /\ is_user(bot.g_users, Member) /\ ps.handler # ""
        user == IF handled THEN [the_user EXCEPT !.state = ps.state] ELSE the_user
        handlers == IF handled
                    THEN Append(call.handlers,
                                NoWait @@ [op |-> "process_state", pc |-> "fetch_message",
                                           handler |-> ps.handler, content |-> ps.content])
                    ELSE call.handlers
        waits == text_waits(handlers, content)
        h == CHOOSE i \in waits : \A j \in waits : i <= j
        after == details_text(user, entries, handlers[h], content)
        next == awaited([handlers EXCEPT ![h].status = "done"], h, after, handlers[h].msg)
    IN  /\ is_user(bot.g_users, Member)
        /\ Len(handlers) <= MaxHandlers
        /\ IF waits = {}
           THEN /\ bot' = [bot EXCEPT !.g_users = users_with(user)]
                /\ call' = [call EXCEPT !.handlers = handlers]
                /\ UNCHANGED entries
           ELSE /\ bot' = [bot EXCEPT !.g_users = users_with(next.user)]
                /\ call' = [call EXCEPT !.handlers = next.handlers]
                /\ entries' = after.entries
        /\ UNCHANGED <<movies, sort_title_cache, today, users_pkl>>

\* a text message of SessionTexts
OnMessage == OnMessageOf(SessionTexts)

\* process_state after fetch_message: without the panel the user is idle;
\* else the handler of the new state runs on the panel down to its first wait
RunHandler ==
  \E h \in 1..Len(call.handlers) :
    /\ call.handlers[h].op = "process_state"
    /\ LET f == call.handlers[h]
           after == IF f.handler = "search_movie"
                    THEN search_movie(bot.g_sites, the_user, f.content, FALSE)
                    ELSE IF f.handler = "movie_details"
                    THEN movie_details(the_user, entries, f.content)
                    ELSE watchlist_panel(the_user, entries, sort_title_cache, FALSE)
           stored(next) == /\ bot' = [bot EXCEPT !.g_users = users_with(next.user)]
                           /\ call' = [call EXCEPT !.handlers = next.handlers]
       IN  /\ stored(IF the_user.message_id \in call.channel
                     THEN awaited(call.handlers, h, after, the_user.message_id)
                     ELSE [user |-> [the_user EXCEPT !.state = "idle"],
                           handlers |-> without(call.handlers, h)])
           /\ sort_title_cache' =
                IF f.handler = "watchlist_panel" /\ the_user.message_id \in call.channel
                THEN cache_after_call(entries, sort_title_cache, the_user.sort_key_watchlist)
                ELSE sort_title_cache
    /\ UNCHANGED <<movies, entries, today, users_pkl>>

\* a reaction of the member to a panel that exists, with an emoji the handler
\* of the panel waits for: the handler goes on down to its next wait
ReactionOf(emojis) ==
  \E h \in 1..Len(call.handlers) :
    /\ call.handlers[h].status = "pending"
    /\ call.handlers[h].pc # "text"
    /\ call.handlers[h].msg \in call.channel
    /\ \E selected_emoji \in emojis_of(call.handlers[h]) \cap emojis :
         LET f == call.handlers[h]
             held == [entries |-> entries]
             stored(after, next) ==
               /\ bot' = [bot EXCEPT !.g_users = users_with(next.user)]
               /\ call' = [call EXCEPT !.handlers = next.handlers]
               /\ entries' = after.entries
               /\ sort_title_cache' =
                    IF /\ f.op = "watchlist_panel"
                       /\ f.pc = "sort_reaction"
                       /\ selected_emoji # "exit"
                    THEN cache_after_call(entries, sort_title_cache,
                                          after.user.sort_key_watchlist)
                    ELSE sort_title_cache
             reacted(after) ==
               stored(after,
                      awaited([call.handlers EXCEPT ![h].status = "done"], h, after, f.msg))
         IN  reacted(IF f.op = "movie_details"
                     THEN details_reaction(the_user, entries, f, selected_emoji, today)
                     ELSE ((IF f.op = "watchlist_panel"
                           THEN watchlist_reaction(the_user, entries, sort_title_cache,
                                                   f, selected_emoji)
                           ELSE IF f.pc = "reaction"
                           THEN main_reaction(bot.g_sites, the_user, f, selected_emoji)
                           ELSE IF f.pc = "sort_reaction"
                           THEN sort_reaction(bot.g_sites, the_user, f, selected_emoji)
                           ELSE random_reaction(bot.g_sites, the_user, f, selected_emoji))
                            @@ held))
    /\ UNCHANGED <<movies, today, users_pkl>>

\* a reaction with an emoji of SessionEmojis
Reaction == ReactionOf(SessionEmojis)

\* get_user_reaction, get_user_text: asyncio.TimeoutError after
\* INTERACTION_TIMEOUT; end_session sets user.state to idle, None is returned
\* and the handler returns
TimeoutError ==
  \E h \in 1..Len(call.handlers) :
    /\ call.handlers[h].status = "pending"
    /\ bot' = [bot EXCEPT !.g_users = users_with([the_user EXCEPT !.state = "idle"])]
    /\ call' = [call EXCEPT !.handlers = without(@, h)]
    /\ UNCHANGED <<movies, entries, sort_title_cache, today, users_pkl>>

\* get_user_reaction, get_user_text: asyncio.CancelledError; None is returned
\* and the handler returns
CancelledError ==
  \E h \in 1..Len(call.handlers) :
    /\ call.handlers[h].status = "cancelled"
    /\ call' = [call EXCEPT !.handlers = without(@, h)]
    /\ UNCHANGED <<movies, entries, sort_title_cache, today, bot, users_pkl>>

\* the error a handler raised leaves the handler
Raised ==
  \E h \in 1..Len(call.handlers) :
    /\ call.handlers[h].op = "raised"
    /\ call' = [call EXCEPT !.handlers = without(@, h)]
    /\ UNCHANGED <<movies, entries, sort_title_cache, today, bot, users_pkl>>

\* the command exit: nothing while bot.g_locked; an unknown member becomes a
\* user; for a user who is not idle and whose panel exists the task the user
\* holds is cancelled (None has no cancel: AttributeError) and end_session
\* sets user.state to idle
ExitCommand ==
  /\ ~bot.g_locked
  /\ IF ~is_user(bot.g_users, Member)
     THEN /\ bot' = [bot EXCEPT !.g_users = with_user(@, Member)]
          /\ UNCHANGED call
     ELSE /\ the_user.state # "idle"
          /\ the_user.message_id \in call.channel
          /\ IF the_user.interaction_task = None
             THEN /\ Len(call.handlers) < MaxHandlers
                  /\ call' = [call EXCEPT !.handlers =
                                Append(@, NoWait @@ [op |-> "raised",
                                                     error |-> "AttributeError"])]
                  /\ UNCHANGED bot
             ELSE /\ call' = [call EXCEPT !.handlers = cancel(@, the_user.interaction_task)]
                  /\ bot' = [bot EXCEPT !.g_users =
                               users_with([the_user EXCEPT !.state = "idle"])]
  /\ UNCHANGED <<movies, entries, sort_title_cache, today, users_pkl>>

\* save_user_data writes the copies of the users to users.pkl, the process
\* ends, and the bot starts again from the file: no handler and no task is
\* left, and the first run of update_site_data is over
Restart ==
  /\ call.restarts < MaxRestarts
  /\ users_pkl' = [g_users |-> [i \in 1..Len(bot.g_users) |-> copy_without_task(bot.g_users[i])],
                   entries |-> entries, sort_title_cache |-> sort_title_cache]
  /\ bot' = [g_locked |-> FALSE, g_users |-> users_pkl'.g_users, g_sites |-> SessionSites]
  /\ call' = [call EXCEPT !.handlers = <<>>, !.restarts = @ + 1]
  /\ UNCHANGED <<movies, entries, sort_title_cache, today>>

NextSession ==
  \/ Command
  \/ RunCommand
  \/ OnMessage
  \/ RunHandler
  \/ Reaction
  \/ TimeoutError
  \/ CancelledError
  \/ Raised
  \/ ExitCommand

SpecSession == InitSession /\ [][NextSession]_vars

\* the sessions of a member who sends commands and texts while the bot is
\* saved and started again
NextRestore ==
  \/ Command
  \/ RunCommand
  \/ OnMessage
  \/ RunHandler
  \/ CancelledError
  \/ Raised
  \/ Restart

SpecRestore == InitSession /\ [][NextRestore]_vars


\* save_user_data: the copies of the users are written to users.pkl;
\* copy_without_task hands the watchlist of the user to the copy and sets
\* watchlist.user to the copy
SaveUserData ==
  /\ bot.g_users # <<>>
  /\ users_pkl' = [g_users |-> [i \in 1..Len(bot.g_users) |-> copy_without_task(bot.g_users[i])],
                   entries |-> entries, sort_title_cache |-> sort_title_cache]
  /\ bot' = [bot EXCEPT !.g_users =
               [i \in 1..Len(bot.g_users) |-> [bot.g_users[i] EXCEPT !.watchlist_user = "copy"]]]
  /\ UNCHANGED <<movies, entries, sort_title_cache, today, call>>

\* the sessions of a member who sends commands and texts while the users are
\* saved
NextSave ==
  \/ Command
  \/ RunCommand
  \/ OnMessage
  \/ RunHandler
  \/ CancelledError
  \/ SaveUserData

SpecSave == InitSession /\ [][NextSave]_vars


-----------------------------------------------------------------------------
(* process_state for a user in any state *)

\* UserState
UserStates ==
  {"idle", "search_movie", "input_search_filter", "movie_details_search",
   "movie_details_watchlist", "watchlist_panel", "rate_movie_search", "rate_movie_watchlist"}

\* the lists user.movie_selection_list may hold
SelectionLists ==
  {<<>>, <<Movie(1, SiteData[1])>>, <<Movie(1, SiteData[1]), Movie(2, SiteData[2])>>}

\* message.content
StateTexts == { <<>>, <<"1">>, <<"2">>, <<"7">>, <<"w">>, <<"W">>, <<"a", "b">> }

\* a user in any state, with any of the lists
InitState ==
  /\ movies = <<>>
  /\ entries = <<>>
  /\ sort_title_cache = <<>>
  /\ today = 0
  /\ users_pkl = NoFile
  /\ call = Idle
  /\ \E state \in UserStates, list \in SelectionLists :
       bot = [NoBot EXCEPT !.g_users =
                << [User(Member) EXCEPT !.state = state,
                                        !.movie_selection_list = list,
                                        !.search_query = <<"a", "b">>] >>]

\* process_state(message, user) down to fetch_message
ProcessState ==
  /\ call = Idle
  /\ \E content \in StateTexts :
       LET routed(ps) ==
             /\ bot' = [bot EXCEPT !.g_users = users_with([the_user EXCEPT !.state = ps.state])]
             /\ call' = [op |-> "process_state", old_state |-> the_user.state,
                         message |-> content, handler |-> ps.handler, content |-> ps.content]
       IN  routed(process_state(the_user, content))
  /\ UNCHANGED <<movies, entries, sort_title_cache, today, users_pkl>>

NextState ==
  \/ ProcessState
  \/ Return

SpecState == InitState /\ [][NextState]_vars


-----------------------------------------------------------------------------
(* The search panel over catalogs longer than MAX_ROWS_SEARCH and over more  *)
(* than one site: collect_data returns one MovieSite for every key of        *)
(* SCRAPE_URLS, and search_movie walks all of bot.g_sites.                    *)

\* one more movie than the panel has rows
Rows == MAX_ROWS_SEARCH + 1

Letters == << "a", "b", "c" >>

\* the title number i of a long catalog: four letters, different for
\* different i up to 81
CatalogTitle(i) ==
  << Letters[(((i - 1) \div 27) % 3) + 1], Letters[(((i - 1) \div 9) % 3) + 1],
     Letters[(((i - 1) \div 3) % 3) + 1], Letters[((i - 1) % 3) + 1] >>

\* the data of a site of n movies with different titles
LongData(n) ==
  [i \in 1..n |-> [title |-> CatalogTitle(i), year |-> Some(1990 + i), length |-> Some(90),
                   rating |-> Some(i % 10), tags |-> <<"x">>]]

\* bot.g_sites as load_scraped_data builds it: no site, one site longer than
\* the panel, two sites that are shorter than the panel but longer together,
\* two sites longer than the panel
SiteLists ==
  { <<>>,
    << load_pkl(1, LongData(Rows)) >>,
    << load_pkl(1, LongData(Rows \div 2 + 1)), load_pkl(2, LongData(Rows \div 2 + 1)) >>,
    << load_pkl(1, LongData(Rows)), load_pkl(2, LongData(Rows)) >> }

\* the bot after on_ready and the first run of update_site_data
InitSites ==
  /\ movies = <<>>
  /\ entries = <<>>
  /\ sort_title_cache = <<>>
  /\ today = 0
  /\ \E sites \in SiteLists : bot = [NoBot EXCEPT !.g_sites = sites]
  /\ users_pkl = NoFile
  /\ call = NoTasks

NextSites ==
  \/ Search
  \/ SearchMovieCommand
  \/ MainReaction
  \/ RandomReaction
  \/ SortReaction
  \/ Timeout

SpecSites == InitSites /\ [][NextSites]_vars


-----------------------------------------------------------------------------
(* Going back from the details of a movie: the member searches with no       *)
(* title or opens the watchlist, sorts the panel, opens the details of a     *)
(* movie with its number and goes back with w.                               *)

BackCommands ==
  { [name |-> "search", content |-> <<>>], [name |-> "watchlist", content |-> <<>>] }

BackTexts == { <<"1">>, <<"w">> }

BackEmojis == {"sort", "reset", "title", "exit", "add"}

CommandBack == CommandOf(BackCommands)

OnMessageBack == OnMessageOf(BackTexts)

ReactionBack == ReactionOf(BackEmojis)

NextBack ==
  \/ CommandBack
  \/ RunCommand
  \/ OnMessageBack
  \/ RunHandler
  \/ ReactionBack
  \/ TimeoutError
  \/ CancelledError

SpecBack == InitSession /\ [][NextBack]_vars


-----------------------------------------------------------------------------
(* The pages of the watchlist panel: the member holds a watchlist of up to   *)
(* three pages, opens the panel, turns the pages, sorts and downloads.       *)

\* the movie number i of a long watchlist
PageMovie(i) ==
  [site |-> 1] @@
  Movie(i, [title |-> CatalogTitle(i),
            year |-> Some(1990), length |-> Some(90), rating |-> Some(5), tags |-> <<"x">>])

\* a watchlist of n entries added on two days, some of them rated
LongWatchlist(n) ==
  [i \in 1..n |-> MovieEntry(PageMovie(i), IF i % 3 = 0 THEN None ELSE Some(i % 3), i % 2)]

\* watchlists of one entry, of a page and one entry, of two pages and one
\* entry
WatchlistLengths == {1, MAX_ROWS_WATCHLIST + 1, 2 * MAX_ROWS_WATCHLIST + 1}

PageCommands == { [name |-> "watchlist", content |-> <<>>] }

PageEmojis == {"previous", "next", "sort", "download", "rating", "descending", "exit"}

\* the member is a user who holds a watchlist and has no panel open
InitPages ==
  /\ movies = <<>>
  /\ \E n \in WatchlistLengths : entries = LongWatchlist(n)
  /\ sort_title_cache = <<>>
  /\ today = 0
  /\ bot = [NoBot EXCEPT !.g_sites = SessionSites, !.g_users = <<User(Member)>>]
  /\ users_pkl = NoFile
  /\ call = NoHandlers

CommandPages == CommandOf(PageCommands)

ReactionPages == ReactionOf(PageEmojis)

NextPages ==
  \/ CommandPages
  \/ RunCommand
  \/ ReactionPages
  \/ TimeoutError
  \/ CancelledError

SpecPages == InitPages /\ [][NextPages]_vars

-----------------------------------------------------------------------------
(* Properties *)

Range(a) == {a[i] : i \in 1..Len(a)}

Ids(a) == {a[i].id : i \in 1..Len(a)}

\* a search_movies call that returned a list
SearchReturned == call.op = "search_movies" /\ call.result.raised = ""

\* the score search_movies gives a record for a phrase
ScoreOf(phrase, m) == match_score(lower(phrase), lower(m.title))

\* the score ranking search_movies builds from the catalog for a phrase
Ranking(phrase, min_match_score) ==
  movies_sorted_by_score(movies, title_scores(movies, lower(phrase)), min_match_score)

\* the candidates of the call in progress: the score ranking after the filters
Candidates ==
  apply_filters(Ranking(call.args.phrase, call.args.min_match_score),
                call.args.filter_tags, call.args.filter_years)

\* no two records of the catalog are equal by (title, year)
NoEqualRecords ==
  \A i, j \in 1..Len(movies) : i < j => ~MovieEq(movies[i], movies[j])

\* the ordering of section 4.4 applied to a list of records itself; date added
\* is the insertion order, which the record's id carries
ordered_view(items, sort_key, reverse) ==
  IF sort_key = "title" THEN get_movies_sorted_by_title(items, None, reverse)
  ELSE IF sort_key = "rating" THEN get_movies_sorted_by_rating(items, None, reverse)
  ELSE IF sort_key = "year" THEN get_movies_sorted_by_year(items, None, reverse)
  ELSE sorted(items, [i \in 1..Len(items) |->
                        IF reverse THEN <<-items[i].id>> ELSE <<items[i].id>>])

\* the whole tags of a ', '-joined tag string
TagSet(tags) == Range(split(tags, <<",", " ">>)) \ {<<>>}

\* C1: search_movies returns at most max_items records, for every catalog
\* (records equal by (title, year) included), query, sort key and
\* limit_before_sort.
C1_AtMostMaxItems ==
  (SearchReturned /\ ~IsNone(call.args.max_items))
    => Len(call.result.value) <= call.args.max_items[1]

\* C2: with a non-empty query every record search_movies returns has a match
\* score against the query of at least min_match_score.
C2_ResultsReachMinScore ==
  (SearchReturned /\ call.args.phrase # <<>>)
    => \A i \in 1..Len(call.result.value) :
          RatGeq(ScoreOf(call.args.phrase, call.result.value[i]),
                 <<call.args.min_match_score, 1>>)

\* a search by title with the threshold set returned records and left out a
\* record of the catalog that scores below the threshold
C2_Witness ==
  /\ SearchReturned
  /\ call.args.phrase # <<>>
  /\ call.args.min_match_score = MIN_MATCH_SCORE
  /\ call.args.sort_key = "title"
  /\ call.result.value # <<>>
  /\ \E i \in 1..Len(movies) :
        RatLess(ScoreOf(call.args.phrase, movies[i]), <<MIN_MATCH_SCORE, 1>>)

\* C3: with the empty query the candidates of search_movies are the whole
\* catalog in insertion order, whatever min_match_score is.
C3_EmptyQueryKeepsCatalog ==
  (call.op = "search_movies" /\ call.args.phrase = <<>>)
    => Ranking(call.args.phrase, call.args.min_match_score) = movies

\* C4: with sort_key = match_score and a non-empty query the result is in
\* non-increasing order of score, and records of equal score are in catalog
\* (insertion) order.
C4_RankedByScoreThenInsertion ==
  (SearchReturned /\ call.args.sort_key = "match_score" /\ call.args.phrase # <<>>)
    => \A i, j \in 1..Len(call.result.value) :
          i < j =>
            LET si == ScoreOf(call.args.phrase, call.result.value[i])
                sj == ScoreOf(call.args.phrase, call.result.value[j])
            IN  /\ RatGeq(si, sj)
                /\ RatEq(si, sj) => call.result.value[i].id < call.result.value[j].id

\* a ranking of two records in which the later record of the catalog scores
\* higher and comes first
C4_Witness ==
  /\ SearchReturned
  /\ call.args.sort_key = "match_score"
  /\ call.args.phrase # <<>>
  /\ Len(call.result.value) = 2
  /\ call.result.value[1].id > call.result.value[2].id
  /\ RatLess(ScoreOf(call.args.phrase, call.result.value[2]),
             ScoreOf(call.args.phrase, call.result.value[1]))

\* C5: filter_movies_by_tags keeps exactly the records whose set of whole tags
\* contains every selected tag; an empty tag filter keeps every record.
C5_TagsSupersetOnWholeTags ==
  call.op = "filter_movies_by_tags"
    => call.result = SelectSeq(movies,
                               LAMBDA m : Range(call.selected_tags) \subseteq TagSet(m.tags))

\* C6: filter_movies_by_years keeps exactly the records whose year is one of
\* the selected years, in their catalog order (a record with no year is
\* dropped); in search_movies an empty or absent year filter drops no record.
C6_YearsMembership ==
  /\ call.op = "filter_movies_by_years"
       => /\ \A i \in 1..Len(call.result) :
                /\ call.result[i].id \in 1..Len(movies)
                /\ call.result[i] = movies[call.result[i].id]
          /\ \A i, j \in 1..Len(call.result) : i < j => call.result[i].id < call.result[j].id
          /\ \A k \in 1..Len(movies) :
                k \in Ids(call.result)
                  <=> (~IsNone(movies[k].year) /\ movies[k].year[1] \in Range(call.selected_years))
  /\ (SearchReturned /\ ~Truthy(call.args.filter_years) /\ IsNone(call.args.max_items))
       => LET ranked == Ranking(call.args.phrase, call.args.min_match_score)
          IN  \A i \in 1..Len(ranked) :
                 (Truthy(call.args.filter_tags)
                    => \A t \in 1..Len(call.args.filter_tags[1]) :
                          StrIn(call.args.filter_tags[1][t], ranked[i].tags))
                   => ranked[i].id \in Ids(call.result.value)

\* a year filter applied to a catalog that holds a record of a selected year
\* and a record with no year
C6_Witness ==
  /\ call.op = "filter_movies_by_years"
  /\ call.selected_years # <<>>
  /\ Len(call.result) = 1
  /\ \E k \in 1..Len(movies) : IsNone(movies[k].year)

\* C7: on a catalog with no two records equal by (title, year) and a sort key
\* other than match_score: with limit_before_sort the result is the first
\* max_items candidates of the filtered score ranking, put in the key's order;
\* without it the result is the first max_items records of the key's ordering
\* of all candidates.
C7_LimitBeforeOrAfterSort ==
  (SearchReturned /\ call.args.sort_key # "match_score" /\ NoEqualRecords)
    => IF call.args.limit_before_sort
       THEN call.result.value =
              ordered_view(Take(Candidates, call.args.max_items),
                           call.args.sort_key, call.args.reverse)
       ELSE call.result.value =
              Take(ordered_view(Candidates, call.args.sort_key, call.args.reverse),
                   call.args.max_items)

\* a search by title limited before the sort to one record, on a catalog of
\* two distinct candidates: the best scoring one is kept although it is not
\* the first by title
C7_Witness ==
  /\ SearchReturned
  /\ call.args.sort_key = "title"
  /\ ~call.args.reverse
  /\ call.args.limit_before_sort
  /\ call.args.max_items = Some(1)
  /\ NoEqualRecords
  /\ Len(Candidates) = 2
  /\ Len(call.result.value) = 1
  /\ call.result.value[1] # ordered_view(Candidates, "title", FALSE)[1]

\* C8: for a sort key other than match_score, the sequence search_movies has
\* before the final truncation holds every candidate exactly once and nothing
\* else: it is the candidate list put in the key's order.
C8_ReorderingOfCandidates ==
  (SearchReturned /\ call.args.sort_key # "match_score")
    => LET limited == limit_before(Candidates, call.args.max_items, call.args.limit_before_sort)
           before_truncation == sort_by_key(movies, limited, call.args.sort_key, call.args.reverse)
       IN  /\ Len(before_truncation) = Len(limited)
           /\ Ids(before_truncation) = Ids(limited)
           /\ before_truncation = ordered_view(limited, call.args.sort_key, call.args.reverse)

\* the call in progress was given a sort key its operation does not recognise
UnknownSortKey ==
  \/ call.op = "search_movies" /\ call.args.sort_key \notin SortKeys
  \/ call.op \in {"get_entries", "get_csv"} /\ call.sort_key \notin WatchlistSortKeys

\* C9: search_movies and get_entries called with an unrecognised sort key
\* raise ValueError, and the call leaves the catalog, the watchlist entries
\* and their order as they were.
C9_UnknownSortKeyRaises ==
  [][(call.op = "idle" /\ call'.op \in {"search_movies", "get_entries"} /\ UnknownSortKey')
       => /\ call'.result.raised = "ValueError"
          /\ call'.result.value = <<>>
          /\ movies' = movies
          /\ entries' = entries]_vars

\* get_entries was called with an unrecognised key on a watchlist of two
\* entries and raised
C9_Witness ==
  /\ call.op = "get_entries"
  /\ call.sort_key \notin WatchlistSortKeys
  /\ call.result.raised = "ValueError"
  /\ Len(entries) = 2

\* C10: every operation that takes a sort key, get_csv included, raises on an
\* unrecognised key instead of producing output in some default order.
C10_NoSilentFallback ==
  UnknownSortKey => call.result.raised = "ValueError"

\* C11: on every catalog, records without rating or year and records with an
\* empty title included, search_movies with any query and a recognised sort
\* key, and each of the four get_movies_sorted_by_* operations, raise no error
\* and return a list of records of the catalog.
C11_SortingNeverRaises ==
  /\ (call.op = "search_movies" /\ call.args.sort_key \in SortKeys)
       => /\ call.result.raised = ""
          /\ Range(call.result.value) \subseteq Range(movies)
  /\ call.op = "get_movies_sorted_by"
       => /\ call.result.raised = ""
          /\ Range(call.result.value) \subseteq Range(movies)
          /\ IsNone(call.max_items) => Len(call.result.value) = Len(movies)

\* the catalog was sorted by rating, highest first, and it holds a record
\* with no rating and a record with an empty title and no year
C11_Witness ==
  /\ call.op = "get_movies_sorted_by"
  /\ call.sort_key = "rating"
  /\ call.reverse
  /\ Len(call.result.value) = 2
  /\ \E i \in 1..Len(movies) : IsNone(movies[i].rating)
  /\ \E i \in 1..Len(movies) : movies[i].title = <<>> /\ IsNone(movies[i].year)

\* an absent value replaced by the value the orderings of section 4.4 give it
Substituted(optional, substitute) == IF optional = <<>> THEN substitute ELSE optional[1]

\* numbers is in the order the reverse flag asks for
InOrder(numbers, reverse) ==
  \A i, j \in 1..Len(numbers) :
     i < j => IF reverse THEN numbers[i] >= numbers[j] ELSE numbers[i] <= numbers[j]

\* a call of a catalog ordering, of a watchlist ordering
CatalogSorted(sort_key) ==
  call.op = "get_movies_sorted_by" /\ call.sort_key = sort_key /\ call.result.raised = ""

WatchlistSorted(sort_key) ==
  call.op = "get_entries_sorted_by" /\ call.sort_key = sort_key /\ call.result.raised = ""

\* C12: the rating orderings of the catalog and of the watchlist order by
\* rating with an absent rating counted as 0, and the year ordering of the
\* catalog by year with an absent year counted as 1900: non-decreasing along
\* the output when reverse is false, non-increasing when it is true.
C12_OrderedBySubstitutedKey ==
  /\ CatalogSorted("rating")
       => InOrder([i \in 1..Len(call.result.value) |->
                     Substituted(call.result.value[i].rating, 0)], call.reverse)
  /\ CatalogSorted("year")
       => InOrder([i \in 1..Len(call.result.value) |->
                     Substituted(call.result.value[i].year, 1900)], call.reverse)
  /\ WatchlistSorted("rating")
       => InOrder([i \in 1..Len(call.result.value) |->
                     Substituted(call.result.value[i].rating, 0)], call.reverse)

\* the watchlist holds an unrated entry followed by a rated one; ordered by
\* rating with reverse set, the unrated entry came last
C12_Witness ==
  /\ WatchlistSorted("rating")
  /\ call.reverse
  /\ Len(entries) = 2
  /\ IsNone(entries[1].rating)
  /\ ~IsNone(entries[2].rating)
  /\ call.result.value = <<entries[2], entries[1]>>

\* items that are equal on Primary are in ascending order of TitleKey, and
\* those equal on both are in the order of Position
TiesByTitle(items, Primary(_), TitleKey(_), Position(_)) ==
  \A i, j \in 1..Len(items) :
     (i < j /\ Primary(items[i]) = Primary(items[j]))
       => /\ ~LexLess(TitleKey(items[j]), TitleKey(items[i]))
          /\ TitleKey(items[i]) = TitleKey(items[j]) => Position(items[i]) < Position(items[j])

\* the place of an entry in the watchlist
EntryPosition(entry) == CHOOSE k \in 1..Len(entries) : entries[k] = entry

\* the title sort key of a watchlist entry
EntryTitleKey(entry) == collator_sort_key(preprocess_title(entry.movie.title))

\* C13: in the rating and year orderings of the catalog and the rating
\* ordering of the watchlist, two items with equal (substituted) rating or
\* year are in ascending order of title sort key, and in stored order when
\* the title keys are equal too, whether reverse is true or false.
C13_TiesAscendingByTitle ==
  /\ CatalogSorted("rating")
       => TiesByTitle(call.result.value, LAMBDA m : Substituted(m.rating, 0),
                      LAMBDA m : strxfrm(m.title), LAMBDA m : m.id)
  /\ CatalogSorted("year")
       => TiesByTitle(call.result.value, LAMBDA m : Substituted(m.year, 1900),
                      LAMBDA m : strxfrm(m.title), LAMBDA m : m.id)
  /\ WatchlistSorted("rating")
       => TiesByTitle(call.result.value, LAMBDA e : Substituted(e.rating, 0),
                      EntryTitleKey, EntryPosition)

\* the watchlist ordered by rating with reverse set: its two entries have the
\* same rating, and the one stored second came out first because its title
\* key is the smaller one
C13_Witness ==
  /\ WatchlistSorted("rating")
  /\ call.reverse
  /\ Len(entries) = 2
  /\ entries[1].rating = entries[2].rating
  /\ LexLess(EntryTitleKey(entries[2]), EntryTitleKey(entries[1]))
  /\ call.result.value = <<entries[2], entries[1]>>

\* C14: the date-added ordering of the catalog and of the watchlist gives the
\* items in insertion order when reverse is false and in exactly the reversed
\* insertion order when reverse is true; no secondary key takes part.
C14_DateAddedIsInsertionOrder ==
  /\ (CatalogSorted("date_added") /\ IsNone(call.max_items))
       => call.result.value = IF call.reverse THEN Reversed(movies) ELSE movies
  /\ (WatchlistSorted("date_added") /\ IsNone(call.max_items))
       => call.result.value = IF call.reverse THEN Reversed(entries) ELSE entries

\* the first n elements of a sequence, all of it when it has fewer
FirstN(a, n) == [i \in 1..(IF n < Len(a) THEN n ELSE Len(a)) |-> a[i]]

\* C15: each sorted-by operation of the catalog and of the watchlist called
\* with max_items = n >= 0 returns the first n elements of what it returns
\* with max_items absent; max_items = 0 gives the empty list.
C15_MaxItemsIsPrefix ==
  /\ (call.op = "get_movies_sorted_by" /\ ~IsNone(call.max_items))
       => /\ call.result.raised = ""
          /\ call.result.value =
               FirstN(get_movies_sorted_by(movies, call.sort_key, None, call.reverse).value,
                      call.max_items[1])
          /\ call.max_items[1] = 0 => call.result.value = <<>>
  /\ (call.op = "get_entries_sorted_by" /\ ~IsNone(call.max_items))
       => /\ call.result.raised = ""
          /\ call.result.value =
               FirstN(get_entries_sorted_by(entries, sort_title_cache, call.sort_key,
                                            None, call.reverse).value,
                      call.max_items[1])
          /\ call.max_items[1] = 0 => call.result.value = <<>>

\* the watchlist of two entries ordered by title with max_items = 1: the one
\* entry returned is the entry stored second
C15_Witness ==
  /\ WatchlistSorted("title")
  /\ call.max_items = Some(1)
  /\ Len(entries) = 2
  /\ call.result.value = <<entries[2]>>

\* C16: a sorted-by operation or search_movies returns what the same call,
\* made again on the unchanged catalog and watchlist, returns, whether the
\* cache of title sort keys is cold or warm; and the call leaves the records
\* of the catalog and the entries of the watchlist as they were, in content
\* and order.
C16_RepeatableAndReadOnly ==
  [][(call.op = "idle"
        /\ call'.op \in {"get_movies_sorted_by", "get_entries_sorted_by", "search_movies"})
       => /\ movies' = movies
          /\ entries' = entries
          /\ call'.op = "get_movies_sorted_by"
               => call'.result = get_movies_sorted_by(movies', call'.sort_key,
                                                      call'.max_items, call'.reverse)
          /\ call'.op = "search_movies"
               => call'.result = search_movies(movies', call'.args)
          /\ call'.op = "get_entries_sorted_by"
               => /\ call'.result = get_entries_sorted_by(entries', sort_title_cache',
                                                           call'.sort_key, call'.max_items,
                                                           call'.reverse)
                  /\ call'.result = get_entries_sorted_by(entries', <<>>, call'.sort_key,
                                                           call'.max_items, call'.reverse)]_vars

\* the watchlist was ordered by title on a warm cache (it holds the key of a
\* title no entry has any more) and the order returned is not the stored one
C16_Witness ==
  /\ WatchlistSorted("title")
  /\ IsNone(call.max_items)
  /\ Len(entries) = 2
  /\ call.result.value = <<entries[2], entries[1]>>
  /\ \E t \in DOMAIN sort_title_cache :
        \A i \in 1..Len(entries) : preprocess_title(entries[i].movie.title) # t

\* C17: filter_movies_by_tags followed by filter_movies_by_years and
\* filter_movies_by_years followed by filter_movies_by_tags return the same
\* records in the same order, for every list of records, tag list and year
\* list.
C17_FiltersCommute ==
  call.op = "compose_filters" => call.tags_then_years = call.years_then_tags

\* both filters were given a selection, the two filters alone keep different
\* records of the catalog, and the composition keeps some record and drops
\* some record
C17_Witness ==
  /\ call.op = "compose_filters"
  /\ call.selected_tags # <<>>
  /\ call.selected_years # <<>>
  /\ filter_movies_by_tags(movies, call.selected_tags)
       # filter_movies_by_years(movies, call.selected_years)
  /\ call.tags_then_years # <<>>
  /\ Len(call.tags_then_years) < Len(movies)

\* the quotient is exactly 1.0, exactly 0.0 (a zero denominator is a division
\* by zero, and no number)
IsOne(q) == q[2] > 0 /\ q[1] = q[2]

IsZero(q) == q[2] > 0 /\ q[1] = 0

\* C18: for every non-empty string s, with leading, trailing or repeated
\* spaces or without, simple_match_percentage(s, s),
\* levenshtein_distance_percentage(s, s) and
\* longest_common_substring_percentage(s, s) are exactly 1.0.
C18_SelfSimilarityIsOne ==
  (call.op = "compare" /\ call.s1 = call.s2 /\ call.s1 # <<>>)
    => IsOne(call.smp) /\ IsOne(call.ldp) /\ IsOne(call.lcsp)

\* a string with two leading spaces was compared with itself
C18_Witness ==
  /\ call.op = "compare"
  /\ call.s1 = <<" ", " ", "a">>
  /\ call.s2 = call.s1
  /\ IsOne(call.smp)

\* C19: when s1 or s2 is empty, each of the three similarity functions
\* returns exactly 0.0 and divides by no zero length.
C19_EmptyStringGivesZero ==
  (call.op = "compare" /\ (call.s1 = <<>> \/ call.s2 = <<>>))
    => IsZero(call.smp) /\ IsZero(call.ldp) /\ IsZero(call.lcsp)

\* the empty string was compared with the empty string
C19_Witness ==
  /\ call.op = "compare"
  /\ call.s1 = <<>>
  /\ call.s2 = <<>>
  /\ IsZero(call.ldp)

\* the quotient lies in [0, top]
InRange(q, top) == q[2] > 0 /\ 0 <= q[1] /\ q[1] <= top * q[2]

\* C20: for every query and title each of the three similarity metrics lies
\* in [0, 1], and the score 25 * simple match + 5 * Levenshtein + 70 * longest
\* common substring that search_movies computes on the lower-cased query and
\* title lies in [0, 100].
C20_ScoresInRange ==
  call.op = "compare"
    => /\ InRange(call.smp, 1)
       /\ InRange(call.ldp, 1)
       /\ InRange(call.lcsp, 1)
       /\ InRange(call.match_score, 100)

\* a query longer than the title, with an upper-case letter and a trailing
\* space: its score is strictly between 0 and 100
C20_Witness ==
  /\ call.op = "compare"
  /\ call.s1 = <<"a", "B", " ">>
  /\ call.s2 = <<"B">>
  /\ ~IsZero(call.match_score)
  /\ call.match_score[1] < 100 * call.match_score[2]

-----------------------------------------------------------------------------
(* C21: for a non-empty query, a record whose title equals the query ignoring *)
(* case scores exactly 100 and a record whose lower-cased title contains the  *)
(* lower-cased query scores at least 95; so with min_match_score <= 95 and    *)
(* sort_key = match_score every such record is returned, and a record with    *)
(* the exact title precedes every record that scores less.                    *)

\* a search by title that returned: non-empty phrase, ranked by score, no
\* filter and no limit
TitleSearchReturned ==
  /\ SearchReturned
  /\ call.args.phrase # <<>>
  /\ call.args.sort_key = "match_score"
  /\ call.args.min_match_score <= 95
  /\ ~Truthy(call.args.filter_tags) /\ ~Truthy(call.args.filter_years)
  /\ IsNone(call.args.max_items)

\* the title of m equals the phrase ignoring case
TitleIs(m, phrase) == lower(m.title) = lower(phrase)

\* the lower-cased title of m contains the lower-cased phrase
TitleContains(m, phrase) == StrIn(lower(phrase), lower(m.title))

C21_ExactAndSubstringScores ==
  TitleSearchReturned =>
    LET phrase == call.args.phrase
        result == call.result.value
    IN  /\ \A i \in 1..Len(movies) :
              /\ TitleIs(movies[i], phrase)
                   => RatEq(ScoreOf(phrase, movies[i]), <<100, 1>>)
              /\ TitleContains(movies[i], phrase)
                   => /\ RatGeq(ScoreOf(phrase, movies[i]), <<95, 1>>)
                      /\ movies[i].id \in Ids(result)
        /\ \A i, j \in 1..Len(result) :
              /\ TitleIs(result[i], phrase)
              /\ RatLess(ScoreOf(phrase, result[j]), ScoreOf(phrase, result[i]))
              => i < j

-----------------------------------------------------------------------------
(* C22: add_movies with duplicates = false never appends a record equal by   *)
(* (title, year) to a record already in the catalog, one appended earlier in *)
(* the same batch included; the records of the catalog keep their places and *)
(* the new ones follow in batch order; a catalog free of equal records stays *)
(* free of them.                                                             *)

\* no two records of a list are equal by (title, year)
EqualFree(a_list) ==
  \A i, j \in 1..Len(a_list) : i < j => ~MovieEq(a_list[i], a_list[j])

\* the positions of a batch whose record is equal neither to a record of the
\* catalog nor to an earlier record of the batch
FirstOfTheirKind(site_movies, new_movies) ==
  {k \in 1..Len(new_movies) :
     /\ ~MovieInList(Movie(0, new_movies[k]), site_movies)
     /\ \A e \in 1..(k - 1) : ~MovieEq(Movie(0, new_movies[e]), Movie(0, new_movies[k]))}

\* the step of add_movies(new_movies, duplicates=False)
AddedWithoutDuplicates ==
  /\ call = Idle
  /\ call'.op = "add_movies"
  /\ ~call'.duplicates

C22_NoDuplicateAppended ==
  [][AddedWithoutDuplicates =>
       LET old == Len(movies)
           new_movies == call'.new_movies
           firsts == FirstOfTheirKind(movies, new_movies)
       IN  /\ Len(movies') = old + Cardinality(firsts)
           /\ SubSeq(movies', 1, old) = movies
           /\ \A n \in (old + 1)..Len(movies') :
                 /\ \A e \in 1..(n - 1) : ~MovieEq(movies'[e], movies'[n])
                 /\ \E k \in firsts :
                       /\ movies'[n] = Movie(n, new_movies[k])
                       /\ Cardinality({g \in firsts : g < k}) = n - old - 1
           /\ EqualFree(movies) => EqualFree(movies')]_vars

\* a batch of two records equal by (title, year) that differ in length was
\* added without duplicates: the first of the two was appended, the second
\* was not
C22_Witness ==
  /\ call.op = "add_movies"
  /\ ~call.duplicates
  /\ Len(call.new_movies) = 2
  /\ MovieEq(Movie(0, call.new_movies[1]), Movie(0, call.new_movies[2]))
  /\ call.new_movies[1] # call.new_movies[2]
  /\ movies = <<Movie(1, call.new_movies[1])>>

-----------------------------------------------------------------------------
(* C23: after any sequence of add_movie, remove_movie and update_rating the  *)
(* watchlist holds at most one entry per movie (by (title, year) equality);  *)
(* add_movie of a movie already present leaves the entries, their order and  *)
(* the rating as they were; remove_movie leaves no entry for the movie.      *)

\* at most one entry per movie
OneEntryPerMovie(some_entries) ==
  \A i, j \in 1..Len(some_entries) :
     i < j => ~MovieEq(some_entries[i].movie, some_entries[j].movie)

\* the movies of the entries, in order
EntryMovies(some_entries) == [i \in 1..Len(some_entries) |-> some_entries[i].movie]

C23_OneEntryPerMovie ==
  [][/\ OneEntryPerMovie(entries')
     /\ (call'.op = "add_movie" /\ call = Idle)
          => IF \E i \in 1..Len(entries) : MovieEq(entries[i].movie, call'.movie)
             THEN entries' = entries
             ELSE entries' = Append(entries, MovieEntry(call'.movie, call'.rating, today))
     /\ (call'.op = "remove_movie" /\ call = Idle)
          => /\ \A i \in 1..Len(entries') : ~MovieEq(entries'[i].movie, call'.movie)
             /\ entries' = SelectSeq(entries, LAMBDA entry : entry \in Range(entries'))
             /\ \A i \in 1..Len(entries) :
                   ~MovieEq(entries[i].movie, call'.movie) => entries[i] \in Range(entries')
     /\ (call'.op = "update_rating" /\ call = Idle)
          => EntryMovies(entries') = EntryMovies(entries)]_vars

\* add_movie was called with a rating for a record that equals the movie of
\* an entry without being that object, and the entry has kept another rating
C23_Witness ==
  /\ call.op = "add_movie"
  /\ \E i \in 1..Len(entries) :
        /\ MovieEq(entries[i].movie, call.movie)
        /\ entries[i].movie.id # call.movie.id
        /\ entries[i].rating # call.rating

-----------------------------------------------------------------------------
(* C24: under any interleaving of the sort calls on a watchlist, every item  *)
(* of the collation cache maps a preprocessed title to the collation key of  *)
(* that preprocessed title, no item is removed or given another value, and   *)
(* _get_sort_key(title) returns what a computation without cache returns.    *)

C24_CacheHoldsTheKeys ==
  [][/\ \A t \in DOMAIN sort_title_cache' :
           /\ \E title \in SortedTitles : t = preprocess_title(title)
           /\ sort_title_cache'[t] = collator_sort_key(t)
     /\ \A t \in DOMAIN sort_title_cache :
           /\ t \in DOMAIN sort_title_cache'
           /\ sort_title_cache'[t] = sort_title_cache[t]
     /\ \A h \in Handlers :
           call'.handler[h].pc = "returned"
             => /\ call'.handler[h].result.raised = ""
                /\ call'.handler[h].result.value
                     = collator_sort_key(preprocess_title(call'.handler[h].title))]_vars

\* one handler found the key of "ab" missing and has not stored it yet while
\* the other has stored it and another key, and a key was returned
C24_Witness ==
  /\ call.op = "_get_sort_key"
  /\ \E h, other \in Handlers :
        /\ call.handler[h].pc = "store"
        /\ call.handler[h].preprocessed_title \in DOMAIN sort_title_cache
        /\ call.handler[other].pc = "returned"
        /\ call.handler[other].title # call.handler[h].title
        /\ Cardinality(DOMAIN sort_title_cache) = 2

-----------------------------------------------------------------------------
(* C25: a refresh that replaces bot.g_sites while a search session is in     *)
(* flight never makes the session show inconsistent data: every search panel *)
(* the session renders lists exactly the movies of user.movie_selection_list,*)
(* both computed against one and the same catalog generation.                *)

\* the handler of the member shows a search panel
PanelShown ==
  /\ call.handler.op = "search_movie"
  /\ call.handler.pc \in {"reaction", "sort_reaction", "random_reaction"}

C25_PanelListsTheSelection ==
  PanelShown =>
    /\ call.handler.embed.movies = the_user.movie_selection_list
    /\ \A i \in 1..Len(the_user.movie_selection_list) :
          \E s \in 1..Len(call.handler.embed.sites) :
             the_user.movie_selection_list[i].site = call.handler.embed.sites[s]

-----------------------------------------------------------------------------
(* C27: a query consisting only of whitespace is treated as no query: for    *)
(* every catalog and every other argument, search_movies returns for a       *)
(* whitespace-only phrase the sequence it returns for the empty phrase.      *)

\* search_movies was called with a phrase of one or more spaces
WhitespaceSearched ==
  /\ call.op = "search_movies"
  /\ call.args.phrase # <<>>
  /\ \A i \in 1..Len(call.args.phrase) : call.args.phrase[i] = " "

C27_WhitespaceIsNoQuery ==
  WhitespaceSearched =>
    call.result = search_movies(movies, [call.args EXCEPT !.phrase = <<>>])

-----------------------------------------------------------------------------
(* C28: two titles share an item of the collation cache, and so receive the  *)
(* same sort key, only if they are the same title: _preprocess_title sends   *)
(* distinct titles to distinct preprocessed strings.                         *)

\* the handlers that hold a preprocessed title
Preprocessed == {h \in Handlers : call.handler[h].pc \in {"test", "store", "return"}}

C28_PreprocessingIsInjective ==
  \A h1 \in Preprocessed, h2 \in Preprocessed :
     call.handler[h1].preprocessed_title = call.handler[h2].preprocessed_title
       => call.handler[h1].title = call.handler[h2].title

-----------------------------------------------------------------------------
(* C29: while bot.g_locked is true (the window in which update_site_data     *)
(* replaces bot.g_sites) bot controls are blocked: no command, text message  *)
(* or reaction of any user is processed and no search is run against         *)
(* bot.g_sites until g_locked is false again.                                *)

\* a step that processes a command or a reaction of the member
ControlProcessed ==
  \/ Search
  \/ SearchMovieCommand
  \/ MainReaction
  \/ RandomReaction
  \/ SortReaction

C29_BlockedWhileLocked ==
  [][bot.g_locked => ~ControlProcessed]_vars

-----------------------------------------------------------------------------
\* C26: in every state of a session, restored users included, no handler has
\* raised the ValueError for an unknown sort key: the sort key passed to
\* search_movies or Watchlist.get_entries is one of the keys these know
UnknownSortKeyRaised ==
  \E h \in 1..Len(call.handlers) :
    /\ call.handlers[h].op = "raised"
    /\ call.handlers[h].error = "ValueError"

C26_SortKeyIsKnown == ~UnknownSortKeyRaised

-----------------------------------------------------------------------------
\* C30: after a call of get_user_reaction or get_user_text the user has one
\* pending interaction task, the new one: every wait that is pending is the
\* task user.interaction_task holds (so the task registered before is
\* cancelled and there is at most one), no two pending waits accept the same
\* event, and the return of a handler whose wait was cancelled leaves the
\* users as they are
PendingWaits(handlers) == {h \in 1..Len(handlers) : handlers[h].status = "pending"}

\* the pending waits f and g accept a common event: texts, or reactions to the
\* same message with an emoji both wait for
SameEvent(f, g) ==
  \/ f.pc = "text" /\ g.pc = "text"
  \/ /\ f.pc # "text"
     /\ g.pc # "text"
     /\ f.msg = g.msg
     /\ emojis_of(f) \cap emojis_of(g) # {}

OnePendingTask ==
  /\ Cardinality(PendingWaits(call.handlers)) <= 1
  /\ \A h \in PendingWaits(call.handlers) :
       the_user.interaction_task = Some(call.handlers[h].task)
  /\ \A h1 \in PendingWaits(call.handlers), h2 \in PendingWaits(call.handlers) :
       h1 # h2 => ~SameEvent(call.handlers[h1], call.handlers[h2])

CancelledReturned ==
  \E h \in 1..Len(call.handlers) :
    /\ call.handlers[h].status = "cancelled"
    /\ call'.handlers = without(call.handlers, h)

C30_OnePendingTask ==
  [][ /\ OnePendingTask'
      /\ CancelledReturned => bot'.g_users = bot.g_users ]_vars

\* a second wait was registered while the first was pending: the first is
\* cancelled, the second is pending and is the task the user holds
C30_Witness ==
  \E h1 \in 1..Len(call.handlers), h2 \in 1..Len(call.handlers) :
    /\ call.handlers[h1].status = "cancelled"
    /\ call.handlers[h2].status = "pending"
    /\ call.handlers[h1].task # call.handlers[h2].task
    /\ the_user.interaction_task = Some(call.handlers[h2].task)

-----------------------------------------------------------------------------
\* C31: one panel handler acts for the user at a time: whenever no command
\* and no process_state is on its way to a handler, user.state names the
\* panel of the handler that owns the pending wait
PanelStates(f) ==
  IF f.op = "search_movie" THEN {"search_movie"}
  ELSE IF f.op = "watchlist_panel" THEN {"watchlist_panel"}
  ELSE IF f.pc = "text" THEN {"rate_movie_search", "rate_movie_watchlist"}
  ELSE {"movie_details_search", "movie_details_watchlist"}

AllAtWait == \A h \in 1..Len(call.handlers) : call.handlers[h].status # "none"

C31_StateNamesThePanel ==
  AllAtWait =>
    \A h \in PendingWaits(call.handlers) : the_user.state \in PanelStates(call.handlers[h])

-----------------------------------------------------------------------------
\* C32: a stalled interaction is abandoned: whenever the state of the user is
\* not idle and no command and no process_state is on its way to a handler, a
\* wait is pending for the user, whose timeout ends the session
C32_NotIdleHasPendingWait ==
  (/\ is_user(bot.g_users, Member)
   /\ the_user.state # "idle"
   /\ AllAtWait)
  => PendingWaits(call.handlers) # {}

-----------------------------------------------------------------------------
\* C33: the exit command of a known user who is not idle and whose panel
\* message exists completes without error, leaves no wait pending and leaves
\* user.state = idle
ExitOfActiveUser ==
  /\ ExitCommand
  /\ is_user(bot.g_users, Member)
  /\ the_user.state # "idle"
  /\ the_user.message_id \in call.channel

C33_ExitEndsTheSession ==
  [][ ExitOfActiveUser =>
        /\ \A h \in 1..Len(call'.handlers) : call'.handlers[h].op # "raised"
        /\ PendingWaits(call'.handlers) = {}
        /\ the_user'.state = "idle" ]_vars

-----------------------------------------------------------------------------
\* C34: the copy save_user_data writes equals the user in every field but
\* interaction_task, which is None, and the save leaves the users and their
\* watchlists as they are
C34_CopyEqualsTheUser ==
  [][ SaveUserData =>
        /\ \A i \in 1..Len(bot.g_users) :
             users_pkl'.g_users[i] = [bot.g_users[i] EXCEPT !.interaction_task = None]
        /\ bot'.g_users = bot.g_users
        /\ entries' = entries
        /\ sort_title_cache' = sort_title_cache ]_vars

\* the copy alone: it keeps the settings of the user (violated as well: the
\* sort keys, the sort orders and the filters of the copy are those of a new User)
CopyKeepsTheSettings ==
  [][ SaveUserData =>
        \A i \in 1..Len(bot.g_users) :
          users_pkl'.g_users[i] = [bot.g_users[i] EXCEPT !.interaction_task = None,
                                                         !.watchlist_user = "self"] ]_vars

-----------------------------------------------------------------------------
\* C35: process_state changes user.state or runs a handler only when the old
\* state is search_movie, movie_details_search, movie_details_watchlist or
\* watchlist_panel; from idle, input_search_filter, rate_movie_search and
\* rate_movie_watchlist every text leaves user.state as it is and runs no
\* handler
RoutedStates ==
  {"search_movie", "movie_details_search", "movie_details_watchlist", "watchlist_panel"}

C35_OnlyPanelsRoute ==
  (call.op = "process_state" /\ call.old_state \notin RoutedStates)
  => (the_user.state = call.old_state /\ call.handler = "")

\* a text that starts a search from a panel arrived during the rating prompt
C35_Witness ==
  /\ call.op = "process_state"
  /\ call.old_state = "rate_movie_search"
  /\ call.message = <<"a", "b">>
  /\ call.handler = ""

-----------------------------------------------------------------------------
\* C38: the search panel never offers more than MAX_ROWS_SEARCH movies: for
\* any number of sites in bot.g_sites the list stored in
\* user.movie_selection_list has at most MAX_ROWS_SEARCH entries, and the
\* number shown next to a listed movie is its 1-based index in that list.
RowsAreIndexes ==
  call.handler.op = "search_movie" =>
    /\ Len(call.handler.embed.movies) <= Len(the_user.movie_selection_list)
    /\ \A i \in 1..Len(call.handler.embed.movies) :
          call.handler.embed.movies[i] = the_user.movie_selection_list[i]

AtMostMaxRows ==
  is_user(bot.g_users, Member) =>
    Len(the_user.movie_selection_list) <= MAX_ROWS_SEARCH

OneSiteAtMostMaxRows == Len(bot.g_sites) <= 1 => AtMostMaxRows

\* a site longer than the panel was searched and MAX_ROWS_SEARCH movies are offered
OneSiteFillsThePanel ==
  /\ Len(bot.g_sites) = 1
  /\ call.handler.op = "search_movie"
  /\ Len(the_user.movie_selection_list) = MAX_ROWS_SEARCH

-----------------------------------------------------------------------------
\* C36: going back with w from the details of a movie returns to the panel
\* the details were opened from (movie_details_search to search_movie,
\* movie_details_watchlist to watchlist_panel); opening details and going back
\* leaves the search query, the filters and the sort settings of the user
\* unchanged, so the search list is recomputed with the same arguments as
\* before: the panel lists the movies it listed before the details were opened.
Settings(user) ==
  << user.search_query, user.filter_tags, user.filter_years,
     user.sort_key_search, user.sort_ascending_search,
     user.sort_key_watchlist, user.sort_ascending_watchlist >>

\* the handlers in progress that are process_state
Processing(handlers) == {h \in 1..Len(handlers) : handlers[h].op = "process_state"}

\* a step of on_message that goes on to process_state and the handler
Received == Cardinality(Processing(call'.handlers)) > Cardinality(Processing(call.handlers))

\* a step of process_state after fetch_message
Ran == Cardinality(Processing(call'.handlers)) < Cardinality(Processing(call.handlers))

\* the text w arrives for a user in a details state (the other text of
\* BackTexts, a number, leads to movie_details)
WentBack ==
  /\ Received
  /\ the_user.state \in {"movie_details_search", "movie_details_watchlist"}
  /\ Len(call'.handlers) = Len(call.handlers) + 1
  /\ call'.handlers[Len(call'.handlers)].handler # "movie_details"

\* process_state goes on with search_movie for the text w, on the panel of a
\* user whose state is search_movie
BackToSearch ==
  /\ Ran
  /\ the_user.state = "search_movie"
  /\ the_user.message_id \in call.channel
  /\ \A h \in 1..Len(call.handlers) :
        call.handlers[h].op = "process_state" => call.handlers[h].handler = "search_movie"

BackIsRouted ==
  WentBack =>
    LET handler == call'.handlers[Len(call'.handlers)].handler
    IN  IF the_user.state = "movie_details_search"
        THEN the_user'.state = "search_movie" /\ handler = "search_movie"
        ELSE the_user'.state = "watchlist_panel" /\ handler = "watchlist_panel"

SettingsAreKept ==
  (Received \/ Ran) => Settings(the_user') = Settings(the_user)

SameListAgain ==
  BackToSearch =>
    /\ the_user'.state = "search_movie"
    /\ the_user'.movie_selection_list = the_user.movie_selection_list

C36_BackKeepsTheSearch == [][BackIsRouted /\ SettingsAreKept /\ SameListAgain]_vars

\* going back is routed to the panel the details were opened from
BackRoutes == [][BackIsRouted]_vars

\* opening details and going back leaves the settings of the user unchanged
BackKeepsTheSettings == [][SettingsAreKept]_vars

\* a user whose search was sorted with the settings the user holds went back
\* from details to the search panel
SearchedAgain ==
  /\ is_user(bot.g_users, Member)
  /\ the_user.state = "search_movie"
  /\ \E h \in 1..Len(call.handlers) :
        /\ call.handlers[h].op = "search_movie"
        /\ call.handlers[h].status = "pending"
        /\ call.handlers[h].sort_key = "title"
  /\ \E h \in 1..Len(call.handlers) :
        /\ call.handlers[h].op = "movie_details"
        /\ call.handlers[h].status = "cancelled"

-----------------------------------------------------------------------------
\* C37: in watchlist_panel, under any sequence of previous-page, next-page,
\* sort and download reactions, 1 <= current_page <= pages_count whenever a
\* page is rendered, every page holds at most MAX_ROWS_WATCHLIST entries, the
\* pages concatenated in order are the currently sorted entry list, and the
\* number shown next to an entry is its 1-based index in
\* user.movie_selection_list.
PanelsShown ==
  {h \in 1..Len(call.handlers) :
     call.handlers[h].op = "watchlist_panel" /\ call.handlers[h].status = "pending"}

PageInRange(f) == 1 <= f.current_page /\ f.current_page <= Len(f.pages)

PagesAreShort(f) ==
  \A p \in 1..Len(f.pages) : Len(f.pages[p]) \in 1..MAX_ROWS_WATCHLIST

PagesAreTheSortedList(f) ==
  /\ extend_all(f.pages) = f.entries
  /\ f.entries = get_entries(entries, sort_title_cache, f.sort_key, ~f.sort_ascending).value

NumbersAreIndexes(f) ==
  /\ f.embed.page_number = f.current_page
  /\ Len(f.embed.rows) = Len(f.pages[f.current_page])
  /\ \A i \in 1..Len(f.embed.rows) :
        /\ f.embed.rows[i].entry = f.pages[f.current_page][i]
        /\ f.embed.rows[i].e_number \in 1..Len(the_user.movie_selection_list)
        /\ the_user.movie_selection_list[f.embed.rows[i].e_number] = f.embed.rows[i].entry.movie

C37_PagesOfTheWatchlist ==
  \A h \in PanelsShown :
     /\ PageInRange(call.handlers[h])
     /\ PagesAreShort(call.handlers[h])
     /\ PagesAreTheSortedList(call.handlers[h])
     /\ NumbersAreIndexes(call.handlers[h])

\* the last of three pages is shown after the entries were sorted by rating,
\* descending
C37_Witness ==
  \E h \in PanelsShown :
     /\ call.handlers[h].pc = "reaction"
     /\ Len(call.handlers[h].pages) = 3
     /\ call.handlers[h].current_page = 3
     /\ call.handlers[h].sort_key = "rating"
     /\ ~call.handlers[h].sort_ascending

====
